---- MODULE Spec2Model ----
(***************************************************************************)
(* A model of the chart2radar extraction pipeline: the stat token          *)
(* classifier (ocr_extractor.py), the zone mapper (zone_mapper.py), the    *)
(* shot chart analyzer (shot_chart_analyzer.py), missing-zone inference    *)
(* (ocr_extractor.py), the games scaler and the SQLite player store        *)
(* (database_manager.py), the JSON player store and the similarity finder  *)
(* (similarity_finder.py).                                                 *)
(*                                                                         *)
(* Texts are sequences of one-character strings, so that the regular       *)
(* expressions, strip(), split() and int() of the source are computed      *)
(* character by character.  Floating point values are exact rationals      *)
(* <<numerator, denominator>> with a positive denominator.                 *)
(***************************************************************************)
EXTENDS Integers, Sequences, FiniteSets, TLC

VARIABLES
    pc,             \* position in the call sequence under study
    text,           \* is_basketball_stat: the raw text argument
    is_stat,        \* is_basketball_stat: the truth value of the result
    coord,          \* get_zone_for_coordinate: the point <<x, y>>
    zone_name,      \* get_zone_for_coordinate: the result
    ocr_results,    \* map_ocr_to_zones: the token list
    zone_data,      \* map_ocr_to_zones: the result, zone name -> zone stat
    stat_groups,    \* group_stats_by_proximity: the returned groups
    group_stat,     \* extract_zone_stats: the returned stat
    normalized_data,\* get_normalized_zone_percentages(zone_data)
    player_vector,  \* normalize_player_data: the vector of normalized_data
    raw_stats,      \* analyze_shot_chart: what extract_basketball_stats returned
    report,         \* analyze_shot_chart: the returned report
    all_results,    \* extraction: the tokens the OCR passes accepted
    unique_results, \* extraction: remove_duplicates(all_results)
    inferred_nas,   \* detect_missing_zones: the returned tokens
    final_results,  \* extract_basketball_stats: the returned list
    ocr_data,       \* extraction: what image_to_data does on each image variant
    ocr_call,       \* extraction from an image: the last call and its outcome
    made_shots,     \* scale_stats_to_games: made shots per zone
    attempts,       \* scale_stats_to_games: attempts per zone
    original_games, \* scale_stats_to_games: original_games
    target_games,   \* scale_stats_to_games: target_games
    scaled,         \* scale_stats_to_games: <<scaled_made, scaled_attempts>>
    player_data,    \* similarity: the player dictionary, in iteration order
    target_player,  \* similarity: target_player
    method,         \* similarity: method
    top_n,          \* similarity: top_n
    exclude_self,   \* similarity: exclude_self
    finder_result,  \* similarity: what the last call returned or raised
    store_class,    \* player store: which class PlayerDatabase names
    players,        \* SQLitePlayerDatabase: the rows of table players, by name
    backup_json,    \* SQLitePlayerDatabase: the content of the JSON backup file
    data,           \* PlayerDatabase: self.data
    db_file,        \* PlayerDatabase: the content of the JSON database file
    db_call,        \* player store: the last call and its arguments
    db_result       \* player store: what the last call returned

clsVars == <<text, is_stat>>
zoneVars == <<coord, zone_name>>
mapVars == <<ocr_results, zone_data, stat_groups, group_stat, normalized_data, player_vector>>
anaVars == <<raw_stats, report>>
extVars == <<all_results, unique_results, inferred_nas, final_results, ocr_data, ocr_call>>
sclVars == <<made_shots, attempts, original_games, target_games, scaled>>
fndVars == <<player_data, target_player, method, top_n, exclude_self, finder_result>>
dbVars == <<store_class, players, backup_json, data, db_file, db_call, db_result>>
vars == <<pc, clsVars, zoneVars, mapVars, anaVars, extVars, sclVars, fndVars, dbVars>>

(***************************************************************************)
(* Characters and texts                                                    *)
(***************************************************************************)
Digits == {"0", "1", "2", "3", "4", "5", "6", "7", "8", "9"}
Whitespace == {" "}

\* Longest raw text handed to the classifier.
MaxTextLen == 4

\* The characters the classifier's inputs are drawn from: a digit, the
\* separators of the stat shapes, both cases of the marker letters, a
\* whitespace character and a character of no shape.
ClassifierAlphabet == {"7", "/", "%", ".", "N", "A", "n", "a", " ", "x"}

SeqsUpTo(S, n) == UNION {[1..k -> S] : k \in 0..n}

(***************************************************************************)
(* str.strip(): drop leading and trailing whitespace.                      *)
(***************************************************************************)
RECURSIVE lstrip(_)
lstrip(s) == IF s # <<>> /\ Head(s) \in Whitespace THEN lstrip(Tail(s)) ELSE s

RECURSIVE rstrip(_)
rstrip(s) ==
    IF s # <<>> /\ s[Len(s)] \in Whitespace
    THEN rstrip(SubSeq(s, 1, Len(s) - 1))
    ELSE s

strip(s) == rstrip(lstrip(s))

(***************************************************************************)
(* re.match(pattern, s) for the anchored patterns of the source.  A        *)
(* pattern is a set of alternatives; an alternative is a sequence of       *)
(* atoms [chars, opt, many]: a character class, whether it may be skipped  *)
(* (the ? and star quantifiers), whether it may repeat (plus and star).    *)
(* The trailing $ demands the end of the text (a stripped text has no      *)
(* trailing newline).                                                      *)
(***************************************************************************)
One(cs)  == [chars |-> cs, opt |-> FALSE, many |-> FALSE]
Plus(cs) == [chars |-> cs, opt |-> FALSE, many |-> TRUE]
Opt(cs)  == [chars |-> cs, opt |-> TRUE,  many |-> FALSE]
Star(cs) == [chars |-> cs, opt |-> TRUE,  many |-> TRUE]

RECURSIVE MatchFrom(_, _, _, _)
MatchFrom(atoms, k, s, i) ==
    IF k > Len(atoms)
    THEN i = Len(s) + 1
    ELSE \/ atoms[k].opt /\ MatchFrom(atoms, k + 1, s, i)
         \/ /\ i <= Len(s)
            /\ s[i] \in atoms[k].chars
            /\ \/ MatchFrom(atoms, k + 1, s, i + 1)
               \/ atoms[k].many /\ MatchFrom(atoms, k, s, i + 1)

re_match(pattern, s) == \E alt \in pattern : MatchFrom(alt, 1, s, 1)

made_attempts_pattern == {<<Plus(Digits), One({"/"}), Plus(Digits)>>}
percentage_pattern == {<<Plus(Digits), Opt({"."}), Star(Digits), One({"%"})>>}
number_pattern == {<<Plus(Digits)>>}
na_pattern ==
    {<<One({"N"}), One({"A"})>>,
     <<One({"N"}), One({"/"}), One({"A"})>>,
     <<One({"n"}), One({"a"})>>,
     <<One({"n"}), One({"/"}), One({"a"})>>}
decimal_pattern == {<<Plus(Digits), One({"."}), Plus(Digits)>>}

\* The longest digits-only text accepted as a bare count.
MaxCountLen == 3

\* A classifier that forgets the length limit of the bare count.
is_basketball_stat_nolimit(raw) ==
    LET t == strip(raw) IN
    IF t = <<>> THEN FALSE
    ELSE \/ re_match(made_attempts_pattern, t)
         \/ re_match(percentage_pattern, t)
         \/ re_match(na_pattern, t)
         \/ re_match(decimal_pattern, t)
         \/ re_match(number_pattern, t)

is_basketball_stat(raw) ==
    LET t == strip(raw) IN
    IF t = <<>> THEN FALSE
    ELSE \/ re_match(made_attempts_pattern, t)
         \/ re_match(percentage_pattern, t)
         \/ re_match(na_pattern, t)
         \/ re_match(decimal_pattern, t)
         \/ (re_match(number_pattern, t) /\ Len(t) <= MaxCountLen)

(***************************************************************************)
(* Numbers in texts: int(), str.split() and float().                       *)
(***************************************************************************)
DigitValue ==
    ("0" :> 0) @@ ("1" :> 1) @@ ("2" :> 2) @@ ("3" :> 3) @@ ("4" :> 4) @@
    ("5" :> 5) @@ ("6" :> 6) @@ ("7" :> 7) @@ ("8" :> 8) @@ ("9" :> 9)

RECURSIVE DigitsValue(_)
DigitsValue(s) ==
    IF s = <<>> THEN 0
    ELSE 10 * DigitsValue(SubSeq(s, 1, Len(s) - 1)) + DigitValue[s[Len(s)]]

\* int(s) of a text of digits, surrounding whitespace ignored.
int(s) == DigitsValue(strip(s))

\* s.split(sep): the pieces of s between the occurrences of sep.
RECURSIVE split(_, _)
split(s, sep) ==
    IF \A i \in 1..Len(s) : s[i] # sep
    THEN <<s>>
    ELSE LET k == CHOOSE i \in 1..Len(s) :
                      s[i] = sep /\ \A j \in 1..(i - 1) : s[j] # sep
         IN <<SubSeq(s, 1, k - 1)>> \o split(SubSeq(s, k + 1, Len(s)), sep)

\* s.replace(c, ''): s without its occurrences of c.
remove_char(s, c) == SelectSeq(s, LAMBDA ch : ch # c)

RECURSIVE Pow10(_)
Pow10(n) == IF n = 0 THEN 1 ELSE 10 * Pow10(n - 1)

\* float(s) of digits with an optional point: the exact rational.
float(s) ==
    LET t == strip(s)
        parts == split(t, ".")
    IN IF Len(parts) = 1
       THEN <<DigitsValue(parts[1]), 1>>
       ELSE <<DigitsValue(parts[1] \o parts[2]), Pow10(Len(parts[2]))>>

RatEq(a, b) == a[1] * b[2] = b[1] * a[2]
RatLe(a, b) == a[1] * b[2] <= b[1] * a[2]
RatLt(a, b) == a[1] * b[2] < b[1] * a[2]
Zero == <<0, 1>>

(***************************************************************************)
(* ShotZoneMapper: the zone table in the order of the dictionary.          *)
(***************************************************************************)
shot_zones ==
    << [name |-> "Left Corner 3",   x_range |-> <<0, 150>>,   y_range |-> <<300, 500>>],
       [name |-> "Right Corner 3",  x_range |-> <<650, 800>>, y_range |-> <<300, 500>>],
       [name |-> "Left Wing 3",     x_range |-> <<50, 250>>,  y_range |-> <<150, 300>>],
       [name |-> "Right Wing 3",    x_range |-> <<550, 750>>, y_range |-> <<150, 300>>],
       [name |-> "Top of Key 3",    x_range |-> <<250, 550>>, y_range |-> <<50, 200>>],
       [name |-> "Above Break 3",   x_range |-> <<200, 600>>, y_range |-> <<100, 250>>],
       [name |-> "Left Mid Range",  x_range |-> <<150, 350>>, y_range |-> <<200, 400>>],
       [name |-> "Right Mid Range", x_range |-> <<450, 650>>, y_range |-> <<200, 400>>],
       [name |-> "Paint",           x_range |-> <<300, 500>>, y_range |-> <<350, 550>>],
       [name |-> "Free Throw Line", x_range |-> <<250, 550>>, y_range |-> <<250, 350>>] >>

mapper_standard_zones ==
    << "Left Corner 3", "Left Wing 3", "Top of Key 3", "Right Wing 3", "Right Corner 3",
       "Above Break 3", "Left Mid Range", "Free Throw Line", "Right Mid Range", "Paint" >>

point_in_zone(x, y, zone_bounds) ==
    /\ zone_bounds.x_range[1] <= x /\ x <= zone_bounds.x_range[2]
    /\ zone_bounds.y_range[1] <= y /\ y <= zone_bounds.y_range[2]

\* Four times the squared distance of (x, y) to the rectangle's center: the
\* center is the half of a sum, and the square root is monotonic.
center_distance2(x, y, zone_bounds) ==
    LET dx == 2 * x - (zone_bounds.x_range[1] + zone_bounds.x_range[2])
        dy == 2 * y - (zone_bounds.y_range[1] + zone_bounds.y_range[2])
    IN dx * dx + dy * dy

\* The loop of get_closest_zone from zone i on; min_distance2 = -1 is the
\* infinite distance it starts with.
RECURSIVE closest_from(_, _, _, _, _)
closest_from(x, y, i, min_distance2, closest_zone) ==
    IF i > Len(shot_zones) THEN closest_zone
    ELSE LET d == center_distance2(x, y, shot_zones[i]) IN
         IF min_distance2 = -1 \/ d < min_distance2
         THEN closest_from(x, y, i + 1, d, shot_zones[i].name)
         ELSE closest_from(x, y, i + 1, min_distance2, closest_zone)

\* A closest-zone search that never updates its default.
get_closest_zone_default(x, y) == "Paint"

get_closest_zone(x, y) == closest_from(x, y, 1, -1, "Paint")

get_zone_for_coordinate(x, y) ==
    IF \E i \in 1..Len(shot_zones) : point_in_zone(x, y, shot_zones[i])
    THEN shot_zones[CHOOSE i \in 1..Len(shot_zones) :
                        /\ point_in_zone(x, y, shot_zones[i])
                        /\ \A j \in 1..(i - 1) : ~point_in_zone(x, y, shot_zones[j])].name
    ELSE get_closest_zone(x, y)

is_made_attempts(t) == re_match(made_attempts_pattern, strip(t))
is_percentage(t) == re_match(percentage_pattern, strip(t))

parse_made_attempts(t) ==
    IF is_made_attempts(t)
    THEN LET parts == split(t, "/") IN <<int(parts[1]), int(parts[2])>>
    ELSE <<0, 0>>

parse_percentage(t) ==
    IF is_percentage(t) THEN float(remove_char(t, "%")) ELSE Zero

\* The default proximity_threshold of group_stats_by_proximity.
proximity_threshold == 100

within_threshold(a, b) ==
    LET dx == a.center_x - b.center_x
        dy == a.center_y - b.center_y
    IN dx * dx + dy * dy <= proximity_threshold * proximity_threshold

\* An inner loop that adds the tokens near token i and marks none as used.
RECURSIVE group_inner_unmarked(_, _, _, _, _)
group_inner_unmarked(results, i, j, group, used) ==
    IF j > Len(results) THEN <<group, used>>
    ELSE IF j \in used THEN group_inner_unmarked(results, i, j + 1, group, used)
    ELSE IF within_threshold(results[i], results[j])
         THEN group_inner_unmarked(results, i, j + 1, Append(group, results[j]), used)
         ELSE group_inner_unmarked(results, i, j + 1, group, used)

\* The inner loop of group_stats_by_proximity for the group of token i.
RECURSIVE group_inner(_, _, _, _, _)
group_inner(results, i, j, group, used) ==
    IF j > Len(results) THEN <<group, used>>
    ELSE IF j \in used THEN group_inner(results, i, j + 1, group, used)
    ELSE IF within_threshold(results[i], results[j])
         THEN group_inner(results, i, j + 1, Append(group, results[j]), used \cup {j})
         ELSE group_inner(results, i, j + 1, group, used)

RECURSIVE group_outer(_, _, _, _)
group_outer(results, i, groups, used) ==
    IF i > Len(results) THEN groups
    ELSE IF i \in used THEN group_outer(results, i + 1, groups, used)
    ELSE LET r == group_inner(results, i, 1, <<results[i]>>, used \cup {i})
         IN group_outer(results, i + 1, Append(groups, r[1]), r[2])

group_stats_by_proximity(results) == group_outer(results, 1, <<>>, {})

\* A loop body in which a made/attempts token always derives the percentage,
\* also over one a percentage token has set.
zone_stat_step_overwrite(zone_stat, result) ==
    LET coords == Append(zone_stat.coordinates, <<result.center_x, result.center_y>>) IN
    IF is_made_attempts(result.text)
    THEN LET ma == parse_made_attempts(result.text) IN
         [zone_stat EXCEPT
            !.coordinates = coords,
            !.made = ma[1],
            !.attempts = ma[2],
            !.percentage = IF ma[2] > 0 THEN <<100 * ma[1], ma[2]>> ELSE @]
    ELSE IF is_percentage(result.text)
    THEN [zone_stat EXCEPT !.coordinates = coords,
                           !.percentage = parse_percentage(result.text)]
    ELSE [zone_stat EXCEPT !.coordinates = coords]

\* One iteration of the loop of extract_zone_stats.
zone_stat_step(zone_stat, result) ==
    LET coords == Append(zone_stat.coordinates, <<result.center_x, result.center_y>>) IN
    IF is_made_attempts(result.text)
    THEN LET ma == parse_made_attempts(result.text) IN
         [zone_stat EXCEPT
            !.coordinates = coords,
            !.made = ma[1],
            !.attempts = ma[2],
            !.percentage = IF ma[2] > 0 /\ RatEq(zone_stat.percentage, Zero)
                           THEN <<100 * ma[1], ma[2]>>
                           ELSE @]
    ELSE IF is_percentage(result.text)
    THEN [zone_stat EXCEPT !.coordinates = coords,
                           !.percentage = parse_percentage(result.text)]
    ELSE [zone_stat EXCEPT !.coordinates = coords]

RECURSIVE zone_stat_loop(_, _, _)
zone_stat_loop(group, i, zone_stat) ==
    IF i > Len(group) THEN zone_stat
    ELSE zone_stat_loop(group, i + 1, zone_stat_step(zone_stat, group[i]))

extract_zone_stats(group) ==
    zone_stat_loop(group, 1,
        [made |-> 0, attempts |-> 0, percentage |-> Zero,
         zone |-> IF group # <<>>
                  THEN get_zone_for_coordinate(group[1].center_x, group[1].center_y)
                  ELSE "None",
         coordinates |-> <<>>])

\* An iteration in which a later group with the same attempts replaces the
\* stored one.
zone_data_step_latest(zd, group) ==
    LET zone_stat == extract_zone_stats(group)
        zname == zone_stat.zone
    IN IF zname # "None" /\ (zone_stat.made > 0 \/ RatLt(Zero, zone_stat.percentage))
       THEN IF zname \in DOMAIN zd
            THEN IF zone_stat.attempts >= zd[zname].attempts
                 THEN [zd EXCEPT ![zname] = zone_stat]
                 ELSE zd
            ELSE (zname :> zone_stat) @@ zd
       ELSE zd

\* An iteration that stores the stat of every group, all-zero ones too.
zone_data_step_unchecked(zd, group) ==
    LET zone_stat == extract_zone_stats(group)
        zname == zone_stat.zone
    IN IF zname # "None"
       THEN IF zname \in DOMAIN zd
            THEN IF zone_stat.attempts > zd[zname].attempts
                 THEN [zd EXCEPT ![zname] = zone_stat]
                 ELSE zd
            ELSE (zname :> zone_stat) @@ zd
       ELSE zd

\* One iteration of the loop of map_ocr_to_zones.
zone_data_step(zd, group) ==
    LET zone_stat == extract_zone_stats(group)
        zname == zone_stat.zone
    IN IF zname # "None" /\ (zone_stat.made > 0 \/ RatLt(Zero, zone_stat.percentage))
       THEN IF zname \in DOMAIN zd
            THEN IF zone_stat.attempts > zd[zname].attempts
                 THEN [zd EXCEPT ![zname] = zone_stat]
                 ELSE zd
            ELSE (zname :> zone_stat) @@ zd
       ELSE zd

RECURSIVE zone_data_loop(_, _, _)
zone_data_loop(groups, i, zd) ==
    IF i > Len(groups) THEN zd
    ELSE zone_data_loop(groups, i + 1, zone_data_step(zd, groups[i]))

\* The empty dictionary.
EmptyDict == [z \in {} |-> 0]

map_ocr_to_zones(results) ==
    zone_data_loop(group_stats_by_proximity(results), 1, EmptyDict)

get_normalized_zone_percentages(zd) ==
    [z \in {mapper_standard_zones[i] : i \in 1..Len(mapper_standard_zones)} |->
        IF z \in DOMAIN zd THEN zd[z].percentage ELSE Zero]

(***************************************************************************)
(* PlayerSimilarityFinder and RadarChartPlotter: their zone lists, and the *)
(* vector normalize_player_data builds for one player.                     *)
(***************************************************************************)
finder_standard_zones ==
    << "Left Corner 3", "Left Wing 3", "Top of Key 3", "Right Wing 3", "Right Corner 3",
       "Left Mid Range", "Left Free Throw", "Right Free Throw", "Right Mid Range", "Paint" >>

radar_standard_zones ==
    << "Left Corner 3", "Left Wing 3", "Top of Key 3", "Right Wing 3", "Right Corner 3",
       "Above Break 3", "Left Mid Range", "Free Throw Line", "Right Mid Range", "Paint" >>

normalize_player_data(zone_percentages) ==
    [i \in 1..Len(finder_standard_zones) |->
        IF finder_standard_zones[i] \in DOMAIN zone_percentages
        THEN zone_percentages[finder_standard_zones[i]]
        ELSE Zero]

(***************************************************************************)
(* ShotChartAnalyzer                                                       *)
(***************************************************************************)
analyzer_zones ==
    << [name |-> "Left Corner 3",   x_range |-> <<50, 120>>,  y_range |-> <<20, 80>>],
       [name |-> "Right Corner 3",  x_range |-> <<650, 720>>, y_range |-> <<20, 80>>],
       [name |-> "Left Mid Range",  x_range |-> <<170, 210>>, y_range |-> <<100, 160>>],
       [name |-> "Paint",           x_range |-> <<300, 440>>, y_range |-> <<20, 40>>],
       [name |-> "Free Throw Line", x_range |-> <<270, 480>>, y_range |-> <<240, 270>>],
       [name |-> "Left Wing 3",     x_range |-> <<80, 130>>,  y_range |-> <<350, 420>>],
       [name |-> "Right Wing 3",    x_range |-> <<610, 660>>, y_range |-> <<350, 420>>],
       [name |-> "Top of Key 3",    x_range |-> <<350, 400>>, y_range |-> <<480, 550>>],
       [name |-> "Right Mid Range", x_range |-> <<540, 580>>, y_range |-> <<100, 160>>] >>

ordered_zones ==
    << "Left Corner 3", "Left Wing 3", "Top of Key 3", "Right Wing 3", "Right Corner 3",
       "Left Mid Range", "Left Free Throw", "Right Free Throw", "Right Mid Range", "Paint" >>

txt_NA == <<"N", "/", "A">>
txt_zero_percent == <<"0", ".", "0", "%">>

map_stat_to_zone(stat) ==
    IF \E i \in 1..Len(analyzer_zones) :
           point_in_zone(stat.center_x, stat.center_y, analyzer_zones[i])
    THEN analyzer_zones[CHOOSE i \in 1..Len(analyzer_zones) :
             /\ point_in_zone(stat.center_x, stat.center_y, analyzer_zones[i])
             /\ \A j \in 1..(i - 1) :
                    ~point_in_zone(stat.center_x, stat.center_y, analyzer_zones[j])].name
    ELSE "Unknown Zone"

\* c in s
contains(s, c) == \E i \in 1..Len(s) : s[i] = c

\* min(shots, key=center_x) and max(shots, key=center_x): the first of the
\* smallest, the first of the largest.
min_by_x(shots) ==
    shots[CHOOSE i \in 1..Len(shots) :
        /\ \A j \in 1..Len(shots) : shots[i].center_x <= shots[j].center_x
        /\ \A j \in 1..(i - 1) : shots[j].center_x > shots[i].center_x]
max_by_x(shots) ==
    shots[CHOOSE i \in 1..Len(shots) :
        /\ \A j \in 1..Len(shots) : shots[i].center_x >= shots[j].center_x
        /\ \A j \in 1..(i - 1) : shots[j].center_x < shots[i].center_x]

\* The entry of zone_data for one zone of the analyzer, after the two loops
\* over actual_stats and over the zones.
analyzer_zone_entry(zname, actual_stats) ==
    LET stats == SelectSeq(actual_stats, LAMBDA st : map_stat_to_zone(st) = zname)
        shots == SelectSeq(stats, LAMBDA st : contains(st.text, "/"))
        pcts == SelectSeq(stats, LAMBDA st : contains(st.text, "%"))
    IN [shots_made_attempted |->
            IF zname = "Free Throw Line" /\ Len(shots) = 2
            THEN min_by_x(shots).text \o <<" ", "+", " ">> \o max_by_x(shots).text
            ELSE IF shots # <<>> THEN shots[1].text ELSE txt_NA,
        percentage |-> IF pcts # <<>> THEN pcts[1].text ELSE txt_zero_percent,
        detected_stats |-> stats]

analyze_shot_chart(stats) ==
    LET actual_stats == SelectSeq(stats, LAMBDA st : st.method # "inferred_na")
        names == {analyzer_zones[i].name : i \in 1..Len(analyzer_zones)}
        zd == [z \in names |-> analyzer_zone_entry(z, actual_stats)]
    IN [statistics |->
            [i \in 1..Len(ordered_zones) |->
                [index |-> i - 1,
                 zone |-> ordered_zones[i],
                 shots_made_attempted |->
                    IF ordered_zones[i] \in names
                    THEN zd[ordered_zones[i]].shots_made_attempted ELSE txt_NA,
                 percentage |->
                    IF ordered_zones[i] \in names
                    THEN zd[ordered_zones[i]].percentage ELSE txt_zero_percent]],
        total_detected |-> Len(actual_stats),
        raw_detections |-> actual_stats]

(***************************************************************************)
(* ShotChartOCR: duplicates, missing zones, the extraction entry point.    *)
(***************************************************************************)
\* The pixel tolerance of remove_duplicates.
tolerance == 20

abs(n) == IF n < 0 THEN -n ELSE n

is_duplicate_of(result, existing) ==
    /\ abs(result.center_x - existing.center_x) <= tolerance
    /\ abs(result.center_y - existing.center_y) <= tolerance
    /\ result.text = existing.text

\* list.remove(x): the list without its first element equal to x.
list_remove(l, x) ==
    LET k == CHOOSE i \in 1..Len(l) : l[i] = x /\ \A j \in 1..(i - 1) : l[j] # x
    IN SubSeq(l, 1, k - 1) \o SubSeq(l, k + 1, Len(l))

\* One iteration of the outer loop of remove_duplicates.
dedup_step(unique_list, result) ==
    IF \E i \in 1..Len(unique_list) : is_duplicate_of(result, unique_list[i])
    THEN LET existing ==
                 unique_list[CHOOSE i \in 1..Len(unique_list) :
                     /\ is_duplicate_of(result, unique_list[i])
                     /\ \A j \in 1..(i - 1) : ~is_duplicate_of(result, unique_list[j])]
         IN IF result.confidence > existing.confidence
            THEN Append(list_remove(unique_list, existing), result)
            ELSE unique_list
    ELSE Append(unique_list, result)

RECURSIVE dedup_loop(_, _, _)
dedup_loop(results, i, unique_list) ==
    IF i > Len(results) THEN unique_list
    ELSE dedup_loop(results, i + 1, dedup_step(unique_list, results[i]))

remove_duplicates(results) == dedup_loop(results, 1, <<>>)

expected_zones ==
    << [name |-> "Left Mid Range",         x_range |-> <<100, 280>>, y_range |-> <<220, 340>>],
       [name |-> "Right Mid Range",        x_range |-> <<470, 650>>, y_range |-> <<220, 340>>],
       [name |-> "Free Throw Line Center", x_range |-> <<300, 450>>, y_range |-> <<180, 280>>] >>

\* str.upper() on the characters of the N/A pass.
upper_char(c) == IF c = "n" THEN "N" ELSE IF c = "a" THEN "A" ELSE c
upper(s) == [i \in 1..Len(s) |-> upper_char(s[i])]

\* The confidence an N/A candidate must exceed.
na_min_confidence == 5
\* The confidence of an inferred N/A.
inferred_confidence == 50

\* Whether one row of the N/A pass becomes a candidate.
is_na_candidate(row) ==
    LET t == strip(row.text) IN
    /\ row.conf > na_min_confidence
    /\ t # <<>>
    /\ \/ upper(t) \in {<<"N", "/", "A">>, <<"N", "A">>, <<"N">>, <<"A">>, <<"/">>}
       \/ (contains(upper(t), "N") /\ contains(upper(t), "A"))

na_candidate(row) ==
    [text |-> strip(row.text),
     confidence |-> row.conf,
     center_x |-> row.left + (row.width \div 2),
     center_y |-> row.top + (row.height \div 2),
     method |-> "na_detection"]

\* The candidates one configuration adds: none when the OCR call raised.
config_candidates(outcome) ==
    IF outcome.failed THEN <<>>
    ELSE LET kept == SelectSeq(outcome.rows, is_na_candidate)
         IN [i \in 1..Len(kept) |-> na_candidate(kept[i])]

\* max(candidates, key=confidence): the first of the most confident.
max_by_confidence(cands) ==
    cands[CHOOSE i \in 1..Len(cands) :
        /\ \A j \in 1..Len(cands) : cands[i].confidence >= cands[j].confidence
        /\ \A j \in 1..(i - 1) : cands[j].confidence < cands[i].confidence]

in_expected_zone(tok, zone) == point_in_zone(tok.center_x, tok.center_y, zone)

\* What the loop over expected_zones appends for one zone.
inferred_for_zone(zone, detected_stats, na_candidates) ==
    IF \E i \in 1..Len(detected_stats) : in_expected_zone(detected_stats[i], zone)
    THEN <<>>
    ELSE LET candidates_in_zone ==
                 SelectSeq(na_candidates, LAMBDA c : in_expected_zone(c, zone))
         IN IF candidates_in_zone # <<>>
            THEN <<[max_by_confidence(candidates_in_zone) EXCEPT !.text = txt_NA]>>
            ELSE <<[text |-> txt_NA,
                    confidence |-> inferred_confidence,
                    center_x |-> (zone.x_range[1] + zone.x_range[2]) \div 2,
                    center_y |-> (zone.y_range[1] + zone.y_range[2]) \div 2,
                    method |-> "inferred_na"]>>

\* A detect_missing_zones that infers nothing once real N/A text was found nowhere.
detect_missing_zones_noinfer(detected_stats, outcome1, outcome2) ==
    LET na_candidates == config_candidates(outcome1) \o config_candidates(outcome2)
    IN IF na_candidates = <<>> THEN <<>>
       ELSE inferred_for_zone(expected_zones[1], detected_stats, na_candidates)
            \o inferred_for_zone(expected_zones[2], detected_stats, na_candidates)
            \o inferred_for_zone(expected_zones[3], detected_stats, na_candidates)

detect_missing_zones(detected_stats, outcome1, outcome2) ==
    LET na_candidates == config_candidates(outcome1) \o config_candidates(outcome2)
    IN inferred_for_zone(expected_zones[1], detected_stats, na_candidates)
       \o inferred_for_zone(expected_zones[2], detected_stats, na_candidates)
       \o inferred_for_zone(expected_zones[3], detected_stats, na_candidates)

\* sorted(l, key=(center_y, center_x)): a stable insertion sort.
position_le(a, b) ==
    \/ a.center_y < b.center_y
    \/ (a.center_y = b.center_y /\ a.center_x <= b.center_x)

RECURSIVE insert_sorted(_, _)
insert_sorted(l, tok) ==
    IF l = <<>> THEN <<tok>>
    ELSE IF position_le(l[Len(l)], tok) THEN Append(l, tok)
    ELSE Append(insert_sorted(SubSeq(l, 1, Len(l) - 1), tok), l[Len(l)])

RECURSIVE sorted(_)
sorted(l) ==
    IF l = <<>> THEN <<>>
    ELSE insert_sorted(sorted(SubSeq(l, 1, Len(l) - 1)), l[Len(l)])

(***************************************************************************)
(* scale_stats_to_games (database_manager.py and similarity_finder.py)     *)
(***************************************************************************)
\* round(n / d) for d > 0: to the nearest integer, a tie to the even one.
round_half_even(n, d) ==
    LET q == n \div d
        r == n - q * d
    IN IF 2 * r < d THEN q
       ELSE IF 2 * r > d THEN q + 1
       ELSE IF q % 2 = 0 THEN q ELSE q + 1

\* A scaler whose second loop reads made_shots where it should read attempts.
scale_stats_to_games_mixup(made, att, orig_games, targ_games) ==
    IF orig_games <= 0 THEN <<made, att>>
    ELSE << [z \in DOMAIN made |-> round_half_even(made[z] * targ_games, orig_games)],
            [z \in DOMAIN att |->
                round_half_even((IF z \in DOMAIN made THEN made[z] ELSE 0) * targ_games,
                                orig_games)] >>

\* A scaler that takes original_games <= 0 for one game.
scale_stats_to_games_unguarded(made, att, orig_games, targ_games) ==
    LET g == IF orig_games <= 0 THEN 1 ELSE orig_games
    IN << [z \in DOMAIN made |-> round_half_even(made[z] * targ_games, g)],
          [z \in DOMAIN att |-> round_half_even(att[z] * targ_games, g)] >>

\* A scaler that rounds made shots up and attempts down.
scale_stats_to_games_made_up(made, att, orig_games, targ_games) ==
    IF orig_games <= 0 THEN <<made, att>>
    ELSE << [z \in DOMAIN made |-> (made[z] * targ_games + orig_games - 1) \div orig_games],
            [z \in DOMAIN att |-> (att[z] * targ_games) \div orig_games] >>

\* scale_factor is target_games / original_games; a count times the factor
\* is the rational count * target_games / original_games.
scale_stats_to_games(made, att, orig_games, targ_games) ==
    IF orig_games <= 0 THEN <<made, att>>
    ELSE << [z \in DOMAIN made |-> round_half_even(made[z] * targ_games, orig_games)],
            [z \in DOMAIN att |-> round_half_even(att[z] * targ_games, orig_games)] >>

(***************************************************************************)
(* The player stores: SQLitePlayerDatabase (database_manager.py) and       *)
(* PlayerDatabase (similarity_finder.py).  A dictionary is a function; a   *)
(* JSON text is the sequence of the <<key, value>> pairs it lists.  None   *)
(* for a dictionary argument is the record None, an Optional[int] is <<>>  *)
(* for None and <<n>> for n.  Row ids and timestamps are not modelled.     *)
(***************************************************************************)
None == [kind |-> "None"]
NoFile == [exists |-> FALSE]

RECURSIVE dumps_from(_, _)
dumps_from(d, keys) ==
    IF keys = {} THEN <<>>
    ELSE LET k == CHOOSE x \in keys : TRUE
         IN <<<<k, d[k]>>>> \o dumps_from(d, keys \ {k})

\* json.dumps(d) of a dictionary with string keys.
json_dumps(d) == dumps_from(d, DOMAIN d)

\* json.loads(t): of two pairs with one key the later one wins.
RECURSIVE json_loads(_)
json_loads(t) ==
    IF t = <<>> THEN EmptyDict
    ELSE LET rest == json_loads(SubSeq(t, 1, Len(t) - 1))
             last == t[Len(t)]
         IN [k \in DOMAIN rest \cup {last[1]} |->
                IF k = last[1] THEN last[2] ELSE rest[k]]

\* d or {} for an Optional[Dict] argument.
or_empty(d) == IF d = None \/ d = EmptyDict THEN EmptyDict ELSE d

\* original_games or games_played.
or_games(orig_games, games_played) ==
    IF orig_games = <<>> \/ orig_games = <<0>> THEN games_played ELSE orig_games[1]

\* INSERT OR REPLACE INTO players: name is a unique key of the table.
add_player_no_backup(table, player_name, percentages, made, att, games_played, orig_games) ==
    LET row == [percentages |-> json_dumps(percentages),
                made_shots |-> json_dumps(or_empty(made)),
                attempts |-> json_dumps(or_empty(att)),
                games_played |-> games_played,
                original_games |-> or_games(orig_games, games_played)]
    IN [n \in DOMAIN table \cup {player_name} |->
            IF n = player_name THEN row ELSE table[n]]

\* The dictionary get_player and backup_to_json build from a row.
row_to_dict(row) ==
    [percentages |-> json_loads(row.percentages),
     made_shots |-> json_loads(row.made_shots),
     attempts |-> json_loads(row.attempts),
     games_played |-> row.games_played,
     original_games |-> row.original_games]

\* json.dump and json.load of one player's dictionary inside the backup.
dump_entry(e) ==
    [e EXCEPT !.percentages = json_dumps(@),
              !.made_shots = json_dumps(@),
              !.attempts = json_dumps(@)]
load_entry(e) ==
    [e EXCEPT !.percentages = json_loads(@),
              !.made_shots = json_loads(@),
              !.attempts = json_loads(@)]

\* The file backup_to_json writes: every row of the table.
backup_to_json(table) ==
    [exists |-> TRUE,
     content |-> json_dumps([n \in DOMAIN table |-> dump_entry(row_to_dict(table[n]))])]

get_player(table, player_name) ==
    IF player_name \in DOMAIN table
    THEN [kind |-> "player", value |-> row_to_dict(table[player_name])]
    ELSE None

get_all_players(table) ==
    [n \in DOMAIN table |-> json_loads(table[n].percentages)]

\* A loop that hands games_played over as original_games.
RECURSIVE load_items_games(_, _, _)
load_items_games(table, items, i) ==
    IF i > Len(items) THEN table
    ELSE LET player_name == items[i][1]
             pd == load_entry(items[i][2])
         IN load_items_games(add_player_no_backup(table, player_name, pd.percentages, pd.made_shots,
                                                  pd.attempts, pd.games_played, <<pd.games_played>>),
                             items, i + 1)

\* The loop of load_from_json_backup over backup_data.items() from pair i on.
RECURSIVE load_items(_, _, _)
load_items(table, items, i) ==
    IF i > Len(items) THEN table
    ELSE LET player_name == items[i][1]
             pd == load_entry(items[i][2])
         IN load_items(add_player_no_backup(table, player_name, pd.percentages, pd.made_shots,
                                            pd.attempts, pd.games_played, <<pd.original_games>>),
                       items, i + 1)

load_result(ok, n) == [kind |-> "load", success |-> ok, count |-> n]

\* load_from_json_backup(force_load): <<the table afterwards, the result>>.
load_from_json_backup(table, file, force_load) ==
    IF ~file.exists THEN <<table, load_result(FALSE, 0)>>
    ELSE IF ~force_load /\ table # EmptyDict
    THEN <<table, load_result(FALSE, Cardinality(DOMAIN table))>>
    ELSE IF file.content = <<>> THEN <<table, load_result(FALSE, 0)>>
    ELSE <<load_items(table, file.content, 1), load_result(TRUE, Len(file.content))>>

\* A removal that deletes nothing.
remove_player_nothing(table, player_name) == table

\* DELETE FROM players WHERE name = ?
remove_player(table, player_name) ==
    [n \in DOMAIN table \ {player_name} |-> table[n]]

\* An entry that keeps the zones of the earlier entry which the new maps lack.
data_add_player_merging(d, player_name, percentages, made, att, games_played, orig_games) ==
    LET merged(old_map, new_map) ==
            [z \in DOMAIN old_map \cup DOMAIN new_map |->
                IF z \in DOMAIN new_map THEN new_map[z] ELSE old_map[z]]
        earlier(field) == IF player_name \in DOMAIN d THEN d[player_name][field] ELSE EmptyDict
        entry == [percentages |-> merged(earlier("percentages"), percentages),
                  made_shots |-> merged(earlier("made_shots"), or_empty(made)),
                  attempts |-> merged(earlier("attempts"), or_empty(att)),
                  games_played |-> games_played,
                  original_games |-> or_games(orig_games, games_played)]
    IN [n \in DOMAIN d \cup {player_name} |-> IF n = player_name THEN entry ELSE d[n]]

\* PlayerDatabase.add_player: self.data[player_name] = {...}
data_add_player(d, player_name, percentages, made, att, games_played, orig_games) ==
    LET entry == [percentages |-> percentages,
                  made_shots |-> or_empty(made),
                  attempts |-> or_empty(att),
                  games_played |-> games_played,
                  original_games |-> or_games(orig_games, games_played)]
    IN [n \in DOMAIN d \cup {player_name} |-> IF n = player_name THEN entry ELSE d[n]]

\* PlayerDatabase.save_database: json.dump(self.data) into the file.
save_database(d) == [exists |-> TRUE, content |-> d]

\* PlayerDatabase.get_player: self.data.get(player_name)
data_get_player(d, player_name) ==
    IF player_name \in DOMAIN d THEN [kind |-> "player", value |-> d[player_name]] ELSE None

\* PlayerDatabase.get_all_players
data_get_all_players(d) == [n \in DOMAIN d |-> d[n].percentages]

\* PlayerDatabase.remove_player: del self.data[player_name] if it is there.
data_remove_player(d, player_name) == [n \in DOMAIN d \ {player_name} |-> d[n]]

\* round(x, 1) of x = n / d, d > 0.
round_1(n, d) == <<round_half_even(10 * n, d), 10>>

\* Percentages that are not rounded.
scaled_percentages_unrounded(scaled_made, scaled_attempts) ==
    [z \in DOMAIN scaled_made |->
        IF (IF z \in DOMAIN scaled_attempts THEN scaled_attempts[z] ELSE 0) > 0
        THEN <<100 * scaled_made[z], scaled_attempts[z]>>
        ELSE Zero]

\* add_player_with_scaling: the percentages of the scaled counts.
scaled_percentages(scaled_made, scaled_attempts) ==
    [z \in DOMAIN scaled_made |->
        IF (IF z \in DOMAIN scaled_attempts THEN scaled_attempts[z] ELSE 0) > 0
        THEN round_1(100 * scaled_made[z], scaled_attempts[z])
        ELSE Zero]

(***************************************************************************)
(* PlayerSimilarityFinder (similarity_finder.py).  A similarity is a real  *)
(* number with a square root in it, kept as                                 *)
(*     [form |-> "sqrt", arg |-> q, err |-> e]            for sqrt(q),      *)
(*     [form |-> "one_minus_sqrt", arg |-> q, err |-> e]  for 1 - sqrt(q),  *)
(* q an exact rational.  err is the direction in which floating point      *)
(* rounding moved the result off that value: -1 below, 0 not at all, 1     *)
(* above.  sklearn's cosine_similarity divides each vector by its norm and *)
(* then sums the products, so a quotient that is rounded leaves a result   *)
(* that is off by some units in the last place; which way depends on the   *)
(* vectors and on the summation order of the BLAS build.  In IEEE double   *)
(* arithmetic [10, 20, 0, ...] with itself gives 0.9999999999999999 and    *)
(* [50, 50, 0, ...] with itself 0.9999999999999998 in every order.         *)
(***************************************************************************)
RECURSIVE GCD(_, _)
GCD(a, b) == IF b = 0 THEN a ELSE GCD(b, a % b)

RatReduce(r) ==
    LET g == GCD(abs(r[1]), r[2]) IN <<r[1] \div g, r[2] \div g>>
RatAdd(a, b) == RatReduce(<<a[1] * b[2] + b[1] * a[2], a[2] * b[2]>>)
RatSub(a, b) == RatReduce(<<a[1] * b[2] - b[1] * a[2], a[2] * b[2]>>)
RatMul(a, b) == RatReduce(<<a[1] * b[1], a[2] * b[2]>>)
\* a / b for b > 0.
RatDiv(a, b) == RatReduce(<<a[1] * b[2], a[2] * b[1]>>)
RatOne == <<1, 1>>

RECURSIVE dot_upto(_, _, _)
dot_upto(v1, v2, n) ==
    IF n = 0 THEN Zero
    ELSE RatAdd(dot_upto(v1, v2, n - 1), RatMul(v1[n], v2[n]))

\* The inner product of two vectors.
dot(v1, v2) == dot_upto(v1, v2, Len(v1))

\* np.all(v == 0)
all_zero(v) == \A i \in 1..Len(v) : RatEq(v[i], Zero)

score_zero == [form |-> "sqrt", arg |-> Zero, err |-> 0]
score_one == [form |-> "sqrt", arg |-> RatOne, err |-> 0]

\* Dividing v by its norm is exact when v has one nonzero component (the
\* quotient is 1 or -1); otherwise the quotients are rounded.
exactly_normalized(v) == Cardinality({i \in 1..Len(v) : ~RatEq(v[i], Zero)}) <= 1

\* The rounding directions a cosine of v1 and v2 can come out with.
float_errors(v1, v2) ==
    IF all_zero(v1) \/ all_zero(v2) \/ (exactly_normalized(v1) /\ exactly_normalized(v2))
    THEN {0}
    ELSE {-1, 0, 1}

\* compute_cosine_similarity; the components are not negative, so the
\* cosine is the root of its square.  e is the rounding direction.
compute_cosine_similarity(vector1, vector2, e) ==
    IF all_zero(vector1) \/ all_zero(vector2) THEN score_zero
    ELSE LET d == dot(vector1, vector2)
         IN [form |-> "sqrt",
             arg |-> RatDiv(RatMul(d, d), RatMul(dot(vector1, vector1), dot(vector2, vector2))),
             err |-> e]

\* compute_euclidean_distance: max(0, 1 - distance / max_distance), the
\* quotient being sqrt(|v1 - v2|^2 / (len * 100^2)).
compute_euclidean_distance(vector1, vector2) ==
    LET diff == [i \in 1..Len(vector1) |-> RatSub(vector1[i], vector2[i])]
        q == RatDiv(dot(diff, diff), <<Len(vector1) * 100 * 100, 1>>)
    IN [form |-> "one_minus_sqrt", arg |-> IF RatLe(RatOne, q) THEN RatOne ELSE q, err |-> 0]

\* a < b for two similarities of one form.
score_lt(a, b) ==
    \/ IF a.form = "sqrt" THEN RatLt(a.arg, b.arg) ELSE RatLt(b.arg, a.arg)
    \/ RatEq(a.arg, b.arg) /\ a.err < b.err

\* The player dictionary is the sequence of its items, [name, percentages],
\* in iteration order.  normalize_player_data on all of it, with the
\* rounding direction errs[i] of the cosine taken with player i.
normalize_all(pdata, errs) ==
    [i \in 1..Len(pdata) |->
        [name |-> pdata[i].name,
         vector |-> normalize_player_data(pdata[i].percentages),
         err |-> errs[i]]]

player_names_of(pdata) == {pdata[i].name : i \in 1..Len(pdata)}

vector_of(pdata, name) ==
    normalize_player_data(pdata[CHOOSE i \in 1..Len(pdata) : pdata[i].name = name].percentages)

known_methods == {"cosine", "euclidean"}

similarity_by(meth, vector1, vector2, e) ==
    IF meth = "cosine" THEN compute_cosine_similarity(vector1, vector2, e)
    ELSE compute_euclidean_distance(vector1, vector2)

\* A sort that leaves the list as it is.
sort_by_similarity_identity(l) == l

RECURSIVE insert_by_similarity(_, _)
insert_by_similarity(l, pair) ==
    IF l = <<>> THEN <<pair>>
    ELSE IF score_lt(l[Len(l)][2], pair[2])
         THEN Append(insert_by_similarity(SubSeq(l, 1, Len(l) - 1), pair), l[Len(l)])
         ELSE Append(l, pair)

\* similarities.sort(key=lambda x: x[1], reverse=True): descending, and
\* stable (pairs with equal keys keep their order).
RECURSIVE sort_by_similarity(_)
sort_by_similarity(l) ==
    IF l = <<>> THEN <<>>
    ELSE insert_by_similarity(sort_by_similarity(SubSeq(l, 1, Len(l) - 1)), l[Len(l)])

\* l[:n]
slice_to(l, n) ==
    IF n >= 0 THEN SubSeq(l, 1, IF n < Len(l) THEN n ELSE Len(l))
    ELSE SubSeq(l, 1, IF Len(l) + n > 0 THEN Len(l) + n ELSE 0)

\* The loop of find_most_similar_player and find_top_similar_players: the
\* candidates, in iteration order.
candidates_of(target, pdata, excl, errs) ==
    SelectSeq(normalize_all(pdata, errs), LAMBDA r : ~(excl /\ r.name = target))

similarities_of(target, pdata, meth, excl, errs) ==
    LET cand == candidates_of(target, pdata, excl, errs)
        target_vector == vector_of(pdata, target)
    IN [k \in 1..Len(cand) |->
           <<cand[k].name, similarity_by(meth, target_vector, cand[k].vector, cand[k].err)>>]

raised(message) == [status |-> "error", error |-> message]
returned(value) == [status |-> "ok", value |-> value]

find_most_similar_player(target, pdata, meth, excl, errs) ==
    IF target \notin player_names_of(pdata) THEN raised("target player not found")
    ELSE IF candidates_of(target, pdata, excl, errs) # <<>> /\ meth \notin known_methods
    THEN raised("unknown similarity method")
    ELSE LET similarities == sort_by_similarity(similarities_of(target, pdata, meth, excl, errs))
         IN IF similarities = <<>>
            THEN returned(<<"No similar players found", score_zero>>)
            ELSE returned(similarities[1])

find_top_similar_players(target, pdata, topn, meth, excl, errs) ==
    IF target \notin player_names_of(pdata) THEN raised("target player not found")
    ELSE IF candidates_of(target, pdata, excl, errs) # <<>> /\ meth \notin known_methods
    THEN raised("unknown similarity method")
    ELSE returned(slice_to(sort_by_similarity(
                      similarities_of(target, pdata, meth, excl, errs)), topn))

\* A matrix whose diagonal is computed like every other entry.
create_similarity_matrix_computed(pdata, meth, errs) ==
    LET n == Len(pdata)
        vec(i) == normalize_player_data(pdata[i].percentages)
    IN IF meth \notin known_methods THEN raised("unknown similarity method")
       ELSE returned(
           [matrix |-> [i \in 1..n |-> [j \in 1..n |->
                           similarity_by(meth, vec(i), vec(j), errs[<<i, j>>])]],
            names |-> [i \in 1..n |-> pdata[i].name]])

\* create_similarity_matrix; errs[<<i, j>>] is the rounding direction of entry i, j.
create_similarity_matrix(pdata, meth, errs) ==
    LET n == Len(pdata)
        vec(i) == normalize_player_data(pdata[i].percentages)
    IN IF n >= 2 /\ meth \notin known_methods THEN raised("unknown similarity method")
       ELSE returned(
           [matrix |-> [i \in 1..n |-> [j \in 1..n |->
                           IF i = j THEN score_one
                           ELSE similarity_by(meth, vec(i), vec(j), errs[<<i, j>>])]],
            names |-> [i \in 1..n |-> pdata[i].name]])

RECURSIVE sum_over(_, _)
sum_over(d, keys) ==
    IF keys = {} THEN Zero
    ELSE LET k == CHOOSE x \in keys : TRUE
         IN RatAdd(d[k], sum_over(d, keys \ {k}))

\* Zones that all count for the average.
counted_zones_all(player_map) == DOMAIN player_map

\* [v for v in player_data.values() if v > 0], by zone.
counted_zones(player_map) == {z \in DOMAIN player_map : RatLt(Zero, player_map[z])}

three_point_zones ==
    {"Left Corner 3", "Left Wing 3", "Top of Key 3", "Right Wing 3", "Right Corner 3"}

strength_margin == 10
three_point_margin == 5
well_rounded_consistency == 70
well_rounded_weaknesses == 2

\* max(0, 100 - sqrt(variance)) is kept as the variance it is taken from,
\* 0.0 as the variance 100^2.
no_consistency == [form |-> "hundred_minus_sqrt", arg |-> <<100 * 100, 1>>]

\* analyze_player_profile; strengths and weaknesses are kept as sets, the
\* lists of the source hold them in the dictionary's order.
analyze_player_profile(player_map) ==
    LET counted == counted_zones(player_map)
        n == Cardinality(counted)
        get(z) == IF z \in DOMAIN player_map THEN player_map[z] ELSE Zero
    IN IF counted = {}
       THEN [strengths |-> {}, weaknesses |-> {}, overall_average |-> Zero,
             consistency |-> no_consistency, three_point_specialist |-> FALSE,
             paint_presence |-> FALSE, well_rounded |-> FALSE]
       ELSE
       LET overall_avg == RatDiv(sum_over(player_map, counted), <<n, 1>>)
           squares == [z \in counted |->
                          RatMul(RatSub(player_map[z], overall_avg),
                                 RatSub(player_map[z], overall_avg))]
           variance == RatDiv(sum_over(squares, counted), <<n, 1>>)
           consistency ==
               IF n > 1
               THEN [form |-> "hundred_minus_sqrt",
                     arg |-> IF RatLe(<<100 * 100, 1>>, variance)
                             THEN <<100 * 100, 1>> ELSE variance]
               ELSE no_consistency
           is_strength(z) == RatLt(RatAdd(overall_avg, <<strength_margin, 1>>), player_map[z])
           strengths == {z \in DOMAIN player_map : is_strength(z)}
           weaknesses ==
               {z \in DOMAIN player_map :
                   /\ ~is_strength(z)
                   /\ RatLt(Zero, player_map[z])
                   /\ RatLt(player_map[z], RatSub(overall_avg, <<strength_margin, 1>>))}
           three_point_avg ==
               RatDiv(sum_over([z \in three_point_zones |-> get(z)], three_point_zones),
                      <<Cardinality(three_point_zones), 1>>)
           slack == 100 - well_rounded_consistency
       IN [strengths |-> strengths,
           weaknesses |-> weaknesses,
           overall_average |-> overall_avg,
           consistency |-> consistency,
           three_point_specialist |->
               RatLt(RatAdd(overall_avg, <<three_point_margin, 1>>), three_point_avg),
           paint_presence |->
               RatLt(RatAdd(overall_avg, <<strength_margin, 1>>), get("Paint")),
           well_rounded |->
               /\ Cardinality(weaknesses) <= well_rounded_weaknesses
               /\ RatLt(consistency.arg, <<slack * slack, 1>>)]

(***************************************************************************)
(* The OCR passes of ocr_extractor.py.  pytesseract.image_to_data either   *)
(* raises or returns rows; nothing around the calls of the two passes      *)
(* catches an exception.                                                   *)
(***************************************************************************)
\* The images preprocess_image_enhanced returns.
preprocessed_count == 4

preprocessed_methods ==
    <<"preprocessed_0", "preprocessed_1", "preprocessed_2", "preprocessed_3">>

\* min_confidence = 20 if i == 0 else 30, with i counted from 0.
min_confidence(i) == IF i = 0 THEN 20 ELSE 30

ocr_token(row, meth) ==
    [text |-> strip(row.text),
     confidence |-> row.conf,
     center_x |-> row.left + (row.width \div 2),
     center_y |-> row.top + (row.height \div 2),
     method |-> meth]

\* The rows of one image that pass: confidence, non-empty, a stat.
accepted_rows(rows, threshold, meth) ==
    LET passes(row) ==
            /\ row.conf > threshold
            /\ strip(row.text) # <<>>
            /\ is_basketball_stat(strip(row.text))
        kept == SelectSeq(rows, passes)
    IN [k \in 1..Len(kept) |-> ocr_token(kept[k], meth)]

RECURSIVE extractions_upto(_, _)
extractions_upto(outcomes, n) ==
    IF n = 0 THEN <<>>
    ELSE extractions_upto(outcomes, n - 1)
         \o accepted_rows(outcomes[n].rows, min_confidence(n - 1), preprocessed_methods[n])

\* extract_text_with_positions: the first image_to_data call that raises
\* ends the loop and the call.
extract_text_with_positions(outcomes) ==
    IF \E i \in 1..Len(outcomes) : outcomes[i].failed
    THEN raised("TesseractError")
    ELSE returned(extractions_upto(outcomes, Len(outcomes)))

extract_from_original_image(outcome) ==
    IF outcome.failed THEN raised("TesseractError")
    ELSE returned(accepted_rows(outcome.rows, 15, "original"))

\* extract_basketball_stats on the outcomes of the preprocessed images, of
\* the original image and of the two configurations of the N/A pass.
extract_basketball_stats(outcomes, original, na1, na2) ==
    LET preprocessed_results == extract_text_with_positions(outcomes)
        original_results == extract_from_original_image(original)
    IN IF preprocessed_results.status = "error" THEN preprocessed_results
       ELSE IF original_results.status = "error" THEN original_results
       ELSE LET all == preprocessed_results.value \o original_results.value
                unique == remove_duplicates(all)
                na_results == detect_missing_zones(unique, na1, na2)
            IN returned([all_results |-> all,
                         unique_results |-> unique,
                         na_results |-> na_results,
                         final_results |-> sorted(unique \o na_results)])

(***************************************************************************)
(* Specifications.  Each component is called on inputs drawn from a        *)
(* bounded set; the variables of the other components stay idle.           *)
(***************************************************************************)
NoCall == [op |-> "none"]
NoReport == [statistics |-> <<>>, total_detected |-> 0, raw_detections |-> <<>>]

ClsIdle == text = <<>> /\ is_stat = FALSE
ZoneIdle == coord = <<0, 0>> /\ zone_name = "None"
MapIdle ==
    /\ ocr_results = <<>>
    /\ zone_data = EmptyDict
    /\ stat_groups = <<>>
    /\ group_stat = None
    /\ normalized_data = EmptyDict
    /\ player_vector = <<>>
AnaIdle == raw_stats = <<>> /\ report = NoReport
ExtIdle ==
    /\ all_results = <<>>
    /\ unique_results = <<>>
    /\ inferred_nas = <<>>
    /\ final_results = <<>>
    /\ ocr_data = <<>>
    /\ ocr_call = NoCall
SclIdle ==
    /\ made_shots = EmptyDict
    /\ attempts = EmptyDict
    /\ original_games = 0
    /\ target_games = 0
    /\ scaled = <<EmptyDict, EmptyDict>>
FndIdle ==
    /\ player_data = <<>>
    /\ target_player = ""
    /\ method = ""
    /\ top_n = 0
    /\ exclude_self = FALSE
    /\ finder_result = NoCall
\* A store that was constructed on no database file and no backup file.
DbIdle ==
    /\ store_class = "SQLitePlayerDatabase"
    /\ players = EmptyDict
    /\ backup_json = NoFile
    /\ data = EmptyDict
    /\ db_file = NoFile
    /\ db_call = NoCall
    /\ db_result = None

(***************************************************************************)
(* The classifier: any raw text, then one call.                            *)
(***************************************************************************)
InitClassifier ==
    /\ pc = "call"
    /\ text \in SeqsUpTo(ClassifierAlphabet, MaxTextLen)
    /\ is_stat = FALSE
    /\ ZoneIdle /\ MapIdle /\ AnaIdle /\ ExtIdle /\ SclIdle /\ FndIdle /\ DbIdle

IsBasketballStat ==
    /\ pc = "call"
    /\ is_stat' = is_basketball_stat(text)
    /\ pc' = "done"
    /\ UNCHANGED <<text, zoneVars, mapVars, anaVars, extVars, sclVars, fndVars, dbVars>>

NextClassifier == IsBasketballStat

SpecClassifier == InitClassifier /\ [][NextClassifier]_vars

(***************************************************************************)
(* Zone lookup: any point of a grid, then one call.                        *)
(***************************************************************************)
\* The grid has a point every 25 pixels, from -100 to 25 * GridMax.
GridMaxX == 36
GridMaxY == 26

InitZone ==
    /\ pc = "call"
    /\ coord \in {<<25 * i, 25 * j>> : i \in -4..GridMaxX, j \in -4..GridMaxY}
    /\ zone_name = "None"
    /\ ClsIdle /\ MapIdle /\ AnaIdle /\ ExtIdle /\ SclIdle /\ FndIdle /\ DbIdle

GetZoneForCoordinate ==
    /\ pc = "call"
    /\ zone_name' = get_zone_for_coordinate(coord[1], coord[2])
    /\ pc' = "done"
    /\ UNCHANGED <<coord, clsVars, mapVars, anaVars, extVars, sclVars, fndVars, dbVars>>

NextZone == GetZoneForCoordinate

SpecZone == InitZone /\ [][NextZone]_vars

(***************************************************************************)
(* The zone mapper: a list of classifier-accepted tokens is mapped, the    *)
(* percentages are normalized and the similarity vector is built, as       *)
(* main.py and app.py chain the calls.                                     *)
(***************************************************************************)
txt_27_70 == <<"2", "7", "/", "7", "0">>
txt_70_27 == <<"7", "0", "/", "2", "7">>
txt_0_5 == <<"0", "/", "5">>
txt_38_6p == <<"3", "8", ".", "6", "%">>
txt_250p == <<"2", "5", "0", "%">>
txt_0p == <<"0", "%">>
txt_12 == <<"1", "2">>

MapperTexts == {txt_27_70, txt_70_27, txt_0_5, txt_38_6p, txt_250p, txt_0p, txt_12, txt_NA}
\* (160, 180) is exactly 100 pixels from (100, 100); (400, 300) is far from all.
MapperCenters == {<<100, 100>>, <<105, 110>>, <<160, 180>>, <<400, 300>>}
MapperTokens ==
    {[text |-> t, center_x |-> c[1], center_y |-> c[2],
      confidence |-> 90, method |-> "original"] : t \in MapperTexts, c \in MapperCenters}

\* Longest token list handed to the mapper.
MaxTokens == 2

InitMapper ==
    /\ pc = "call"
    /\ ocr_results \in SeqsUpTo(MapperTokens, MaxTokens)
    /\ zone_data = EmptyDict
    /\ stat_groups = <<>>
    /\ group_stat = None
    /\ normalized_data = EmptyDict
    /\ player_vector = <<>>
    /\ ClsIdle /\ ZoneIdle /\ AnaIdle /\ ExtIdle /\ SclIdle /\ FndIdle /\ DbIdle

MapOcrToZones ==
    /\ pc = "call"
    /\ zone_data' = map_ocr_to_zones(ocr_results)
    /\ pc' = "mapped"
    /\ UNCHANGED <<ocr_results, normalized_data, player_vector, stat_groups, group_stat>>
    /\ UNCHANGED <<clsVars, zoneVars, anaVars, extVars, sclVars, fndVars, dbVars>>

GetNormalizedZonePercentages ==
    /\ pc = "mapped"
    /\ normalized_data' = get_normalized_zone_percentages(zone_data)
    /\ pc' = "normalized"
    /\ UNCHANGED <<ocr_results, zone_data, player_vector, stat_groups, group_stat>>
    /\ UNCHANGED <<clsVars, zoneVars, anaVars, extVars, sclVars, fndVars, dbVars>>

NormalizePlayerData ==
    /\ pc = "normalized"
    /\ player_vector' = normalize_player_data(normalized_data)
    /\ pc' = "done"
    /\ UNCHANGED <<ocr_results, zone_data, normalized_data, stat_groups, group_stat>>
    /\ UNCHANGED <<clsVars, zoneVars, anaVars, extVars, sclVars, fndVars, dbVars>>

NextMapper ==
    \/ MapOcrToZones
    \/ GetNormalizedZonePercentages
    \/ NormalizePlayerData

SpecMapper == InitMapper /\ [][NextMapper]_vars

(***************************************************************************)
(* The analyzer: a list as extract_basketball_stats returns it (sorted by  *)
(* position, no token twice), then one call.                               *)
(***************************************************************************)
txt_5_10 == <<"5", "/", "1", "0">>
txt_8_12 == <<"8", "/", "1", "2">>
txt_50p == <<"5", "0", "%">>

AnalyzerTexts == {txt_5_10, txt_8_12, txt_50p, txt_NA}
AnalyzerCenters == {<<280, 250>>, <<420, 250>>, <<350, 500>>}
AnalyzerTokens ==
    {[text |-> t, center_x |-> c[1], center_y |-> c[2],
      confidence |-> 90, method |-> "original"] : t \in AnalyzerTexts, c \in AnalyzerCenters}
    \cup {[text |-> txt_NA, center_x |-> 190, center_y |-> 280,
           confidence |-> inferred_confidence, method |-> "inferred_na"]}

\* Longest list handed to the analyzer.
MaxStats == 3

IsSortedByPosition(l) ==
    \A i \in 1..(Len(l) - 1) : position_le(l[i], l[i + 1])
NoTokenTwice(l) ==
    \A i, j \in 1..Len(l) : i # j => l[i] # l[j]

InitAnalyzer ==
    /\ pc = "call"
    /\ raw_stats \in {l \in SeqsUpTo(AnalyzerTokens, MaxStats) :
                          IsSortedByPosition(l) /\ NoTokenTwice(l)}
    /\ report = NoReport
    /\ ClsIdle /\ ZoneIdle /\ MapIdle /\ ExtIdle /\ SclIdle /\ FndIdle /\ DbIdle

AnalyzeShotChart ==
    /\ pc = "call"
    /\ report' = analyze_shot_chart(raw_stats)
    /\ pc' = "done"
    /\ UNCHANGED <<raw_stats, clsVars, zoneVars, mapVars, extVars, sclVars, fndVars, dbVars>>

NextAnalyzer == AnalyzeShotChart

SpecAnalyzer == InitAnalyzer /\ [][NextAnalyzer]_vars

(***************************************************************************)
(* Grouping: token lists over three centers on one line, 100 pixels apart, *)
(* all inside "Top of Key 3"; then one call of group_stats_by_proximity,   *)
(* of extract_zone_stats on the list as one group, or of map_ocr_to_zones. *)
(***************************************************************************)
txt_0_20 == <<"0", "/", "2", "0">>

GroupTexts == {txt_5_10, txt_8_12, txt_50p, txt_0_20, txt_NA}
GroupCenters == {<<260, 100>>, <<360, 100>>, <<460, 100>>}
GroupTokens ==
    {[text |-> t, center_x |-> c[1], center_y |-> c[2],
      confidence |-> 90, method |-> "original"] : t \in GroupTexts, c \in GroupCenters}

\* Longest token list handed to the grouping.
MaxGroupTokens == 3

InitGroups ==
    /\ pc = "call"
    /\ ocr_results \in SeqsUpTo(GroupTokens, MaxGroupTokens)
    /\ zone_data = EmptyDict
    /\ stat_groups = <<>>
    /\ group_stat = None
    /\ normalized_data = EmptyDict
    /\ player_vector = <<>>
    /\ ClsIdle /\ ZoneIdle /\ AnaIdle /\ ExtIdle /\ SclIdle /\ FndIdle /\ DbIdle

GroupStatsByProximity ==
    /\ pc = "call"
    /\ stat_groups' = group_stats_by_proximity(ocr_results)
    /\ pc' = "grouped"
    /\ UNCHANGED <<ocr_results, zone_data, group_stat, normalized_data, player_vector>>
    /\ UNCHANGED <<clsVars, zoneVars, anaVars, extVars, sclVars, fndVars, dbVars>>

ExtractZoneStats ==
    /\ pc = "call"
    /\ group_stat' = extract_zone_stats(ocr_results)
    /\ pc' = "stat"
    /\ UNCHANGED <<ocr_results, zone_data, stat_groups, normalized_data, player_vector>>
    /\ UNCHANGED <<clsVars, zoneVars, anaVars, extVars, sclVars, fndVars, dbVars>>

NextGroups ==
    \/ GroupStatsByProximity
    \/ ExtractZoneStats
    \/ MapOcrToZones

SpecGroups == InitGroups /\ [][NextGroups]_vars

(***************************************************************************)
(* Extraction: the tokens the OCR passes accepted, then either             *)
(* detect_missing_zones on them or the whole extract_basketball_stats.     *)
(* Each of the two configurations of the N/A pass raises or returns rows.  *)
(***************************************************************************)
ExtractCenters == {<<190, 280>>, <<200, 290>>, <<560, 280>>, <<375, 230>>}
ExtractTokens ==
    {[text |-> txt_27_70, center_x |-> c[1], center_y |-> c[2],
      confidence |-> k, method |-> "original"] : c \in ExtractCenters, k \in {60, 80}}

\* Longest list of accepted tokens.
MaxDetected == 2

NaRows ==
    {[text |-> t, conf |-> k, left |-> p[1], top |-> p[2], width |-> 20, height |-> 10] :
        t \in {<<"n", "a">>, <<"/", "/">>},
        k \in {3, 40, 60},
        p \in {<<180, 225>>, <<365, 225>>, <<700, 400>>}}
NaOutcomes ==
    {[failed |-> TRUE, rows |-> <<>>], [failed |-> FALSE, rows |-> <<>>]}
    \cup {[failed |-> FALSE, rows |-> <<r>>] : r \in NaRows}

InitExtract ==
    /\ pc = "call"
    /\ all_results \in SeqsUpTo(ExtractTokens, MaxDetected)
    /\ unique_results = <<>>
    /\ inferred_nas = <<>>
    /\ final_results = <<>>
    /\ ocr_data = <<>>
    /\ ocr_call = NoCall
    /\ ClsIdle /\ ZoneIdle /\ MapIdle /\ AnaIdle /\ SclIdle /\ FndIdle /\ DbIdle

\* detect_missing_zones(image_path, all_results), called on its own.
DetectMissingZones ==
    /\ pc = "call"
    /\ \E o1, o2 \in NaOutcomes :
           inferred_nas' = detect_missing_zones(all_results, o1, o2)
    /\ pc' = "detected"
    /\ UNCHANGED <<all_results, unique_results, final_results, ocr_data, ocr_call>>
    /\ UNCHANGED <<clsVars, zoneVars, mapVars, anaVars, sclVars, fndVars, dbVars>>

ExtractBasketballStats ==
    /\ pc = "call"
    /\ \E o1, o2 \in NaOutcomes :
           LET unique == remove_duplicates(all_results)
               na_results == detect_missing_zones(unique, o1, o2)
           IN /\ unique_results' = unique
              /\ inferred_nas' = na_results
              /\ final_results' = sorted(unique \o na_results)
    /\ pc' = "extracted"
    /\ UNCHANGED <<all_results, ocr_data, ocr_call>>
    /\ UNCHANGED <<clsVars, zoneVars, mapVars, anaVars, sclVars, fndVars, dbVars>>

NextExtract ==
    \/ DetectMissingZones
    \/ ExtractBasketballStats

SpecExtract == InitExtract /\ [][NextExtract]_vars

(***************************************************************************)
(* remove_duplicates on lists of equal-text tokens at three centers in a   *)
(* row, 20 pixels apart.                                                   *)
(***************************************************************************)
DuplicateTokens ==
    {[text |-> txt_27_70, center_x |-> x, center_y |-> 280,
      confidence |-> k, method |-> "original"] : x \in {190, 210, 230}, k \in {60, 80}}

\* Longest list handed to remove_duplicates.
MaxDuplicates == 3

InitDedup ==
    /\ pc = "call"
    /\ all_results \in SeqsUpTo(DuplicateTokens, MaxDuplicates)
    /\ unique_results = <<>>
    /\ inferred_nas = <<>>
    /\ final_results = <<>>
    /\ ocr_data = <<>>
    /\ ocr_call = NoCall
    /\ ClsIdle /\ ZoneIdle /\ MapIdle /\ AnaIdle /\ SclIdle /\ FndIdle /\ DbIdle

RemoveDuplicates ==
    /\ pc = "call"
    /\ unique_results' = remove_duplicates(all_results)
    /\ pc' = "deduped"
    /\ UNCHANGED <<all_results, inferred_nas, final_results, ocr_data, ocr_call>>
    /\ UNCHANGED <<clsVars, zoneVars, mapVars, anaVars, sclVars, fndVars, dbVars>>

NextDedup == RemoveDuplicates

SpecDedup == InitDedup /\ [][NextDedup]_vars

(***************************************************************************)
(* Extraction from an image: what image_to_data does on each of the four   *)
(* preprocessed images and on the original image is drawn first.           *)
(***************************************************************************)
OcrRows ==
    {[text |-> t, conf |-> k, left |-> 180, top |-> 275, width |-> 20, height |-> 10] :
        t \in {txt_27_70}, k \in {18, 25, 90}}
    \cup {[text |-> <<"a", "b">>, conf |-> 90, left |-> 180, top |-> 275,
           width |-> 20, height |-> 10]}
OcrOutcomes ==
    {[failed |-> TRUE, rows |-> <<>>], [failed |-> FALSE, rows |-> <<>>]}
    \cup {[failed |-> FALSE, rows |-> <<r>>] : r \in OcrRows}
OcrNaOutcomes ==
    {[failed |-> TRUE, rows |-> <<>>],
     [failed |-> FALSE,
      rows |-> <<[text |-> <<"n", "a">>, conf |-> 40, left |-> 365, top |-> 225,
                  width |-> 20, height |-> 10]>>]}

InitOcr ==
    /\ pc = "call"
    /\ ocr_data \in [1..(preprocessed_count + 1) -> OcrOutcomes]
    /\ ocr_call = NoCall
    /\ all_results = <<>>
    /\ unique_results = <<>>
    /\ inferred_nas = <<>>
    /\ final_results = <<>>
    /\ ClsIdle /\ ZoneIdle /\ MapIdle /\ AnaIdle /\ SclIdle /\ FndIdle /\ DbIdle

OcrFrame ==
    /\ UNCHANGED ocr_data
    /\ UNCHANGED <<clsVars, zoneVars, mapVars, anaVars, sclVars, fndVars, dbVars>>

ExtractTextWithPositions ==
    /\ pc = "call"
    /\ ocr_call' = [op |-> "extract_text_with_positions",
                    outcome |-> extract_text_with_positions(SubSeq(ocr_data, 1, preprocessed_count))]
    /\ pc' = "extracted"
    /\ UNCHANGED <<all_results, unique_results, inferred_nas, final_results>>
    /\ OcrFrame

ExtractFromOriginalImage ==
    /\ pc = "call"
    /\ ocr_call' = [op |-> "extract_from_original_image",
                    outcome |-> extract_from_original_image(ocr_data[preprocessed_count + 1])]
    /\ pc' = "extracted"
    /\ UNCHANGED <<all_results, unique_results, inferred_nas, final_results>>
    /\ OcrFrame

\* extract_basketball_stats(image_path): the two passes, remove_duplicates,
\* detect_missing_zones, sorted.
ExtractBasketballStatsFromImage ==
    /\ pc = "call"
    /\ \E na1, na2 \in OcrNaOutcomes :
        LET got == extract_basketball_stats(SubSeq(ocr_data, 1, preprocessed_count),
                                            ocr_data[preprocessed_count + 1], na1, na2)
        IN IF got.status = "error"
           THEN /\ ocr_call' = [op |-> "extract_basketball_stats", outcome |-> got]
                /\ UNCHANGED <<all_results, unique_results, inferred_nas, final_results>>
           ELSE /\ ocr_call' = [op |-> "extract_basketball_stats",
                                outcome |-> returned(got.value.final_results)]
                /\ all_results' = got.value.all_results
                /\ unique_results' = got.value.unique_results
                /\ inferred_nas' = got.value.na_results
                /\ final_results' = got.value.final_results
    /\ pc' = "extracted"
    /\ OcrFrame

NextOcr ==
    \/ ExtractTextWithPositions
    \/ ExtractFromOriginalImage
    \/ ExtractBasketballStatsFromImage

SpecOcr == InitOcr /\ [][NextOcr]_vars

(***************************************************************************)
(* The scaler: any two per-zone maps and game counts, then one call.       *)
(***************************************************************************)
ScalerZones == {"Paint", "Left Corner 3"}
\* Largest count in a map, largest number of games.
MaxShots == 3
MaxGames == 3

ScalerMaps == UNION {[dom -> 0..MaxShots] : dom \in SUBSET ScalerZones}

\* The scenario Paint 10/20 over 22 games, scaled to 44 games.
PaintScenario == <<[z \in {"Paint"} |-> 10], [z \in {"Paint"} |-> 20], 22, 44>>

ScalerInputs ==
    (ScalerMaps \X ScalerMaps \X (-1..MaxGames) \X (-1..MaxGames)) \cup {PaintScenario}

PlayerNames == {"A", "B"}

InitScaler ==
    /\ pc = "call"
    /\ \E inp \in ScalerInputs :
           /\ made_shots = inp[1]
           /\ attempts = inp[2]
           /\ original_games = inp[3]
           /\ target_games = inp[4]
    /\ scaled = <<EmptyDict, EmptyDict>>
    /\ ClsIdle /\ ZoneIdle /\ MapIdle /\ AnaIdle /\ ExtIdle /\ FndIdle /\ DbIdle

ScaleStatsToGames ==
    /\ pc = "call"
    /\ scaled' = scale_stats_to_games(made_shots, attempts, original_games, target_games)
    /\ pc' = "done"
    /\ UNCHANGED <<made_shots, attempts, original_games, target_games>>
    /\ UNCHANGED <<clsVars, zoneVars, mapVars, anaVars, extVars, fndVars, dbVars>>

\* add_player_with_scaling on a new store: scale, derive the percentages,
\* add_player (the row, then the backup file).
AddPlayerWithScaling ==
    /\ pc = "call"
    /\ \E player_name \in PlayerNames :
        LET sc == scale_stats_to_games(made_shots, attempts, original_games, target_games)
            percentages == scaled_percentages(sc[1], sc[2])
            table == add_player_no_backup(players, player_name, percentages,
                                          sc[1], sc[2], target_games, <<original_games>>)
        IN /\ scaled' = sc
           /\ players' = table
           /\ backup_json' = backup_to_json(table)
           /\ db_call' = [op |-> "add_player_with_scaling", name |-> player_name]
           /\ db_result' = [kind |-> "bool", flag |-> TRUE]
    /\ pc' = "stored"
    /\ UNCHANGED <<made_shots, attempts, original_games, target_games>>
    /\ UNCHANGED <<store_class, data, db_file>>
    /\ UNCHANGED <<clsVars, zoneVars, mapVars, anaVars, extVars, fndVars>>

NextScaler == ScaleStatsToGames \/ AddPlayerWithScaling

SpecScaler == InitScaler /\ [][NextScaler]_vars

(***************************************************************************)
(* The similarity finder: any player dictionary, then one call with any    *)
(* arguments.                                                              *)
(***************************************************************************)
FinderNames == {"A", "B", "C"}
FinderMethods == {"cosine", "euclidean", "manhattan"}
\* Most players in the dictionary, largest top_n.
MaxPlayers == 3
MaxTopN == 2

\* A map with keys that are no zones: its vector is all zero.
map_abcd == [z \in {"A", "B", "C", "D"} |->
                IF z = "A" THEN <<80, 1>> ELSE IF z = "B" THEN <<20, 1>>
                ELSE IF z = "C" THEN <<50, 1>> ELSE Zero]
map_10_20 == [z \in {"Left Corner 3", "Paint"} |-> IF z = "Paint" THEN <<20, 1>> ELSE <<10, 1>>]
map_paint == [z \in {"Paint"} |-> <<50, 1>>]
FinderMaps == {map_abcd, map_10_20, map_paint}

HasDistinctNames(pdata) ==
    \A i, j \in 1..Len(pdata) : pdata[i].name = pdata[j].name => i = j

PlayerDicts ==
    UNION {{pdata \in [1..n -> [name : FinderNames, percentages : FinderMaps]] :
                HasDistinctNames(pdata)} : n \in 0..MaxPlayers}

InitFinder ==
    /\ pc = "call"
    /\ player_data \in PlayerDicts
    /\ target_player = ""
    /\ method = ""
    /\ top_n = 0
    /\ exclude_self = FALSE
    /\ finder_result = NoCall
    /\ ClsIdle /\ ZoneIdle /\ MapIdle /\ AnaIdle /\ ExtIdle /\ SclIdle /\ DbIdle

\* The rounding directions of the cosines of one call with a target: one
\* for each of the first k players.
RECURSIVE TargetErrorsUpTo(_, _, _)
TargetErrorsUpTo(target, meth, k) ==
    IF k = 0 THEN {<<>>}
    ELSE LET choices ==
                 IF meth = "cosine" /\ target \in player_names_of(player_data)
                 THEN float_errors(vector_of(player_data, target),
                                   normalize_player_data(player_data[k].percentages))
                 ELSE {0}
         IN {Append(errs, e) : errs \in TargetErrorsUpTo(target, meth, k - 1), e \in choices}

TargetErrors(target, meth) == TargetErrorsUpTo(target, meth, Len(player_data))

\* The rounding directions of the entries of a matrix: entry i, j is
\* computed from the same products as entry j, i.
MatrixErrors(meth) ==
    LET n == Len(player_data)
        pairs == {p \in (1..n) \X (1..n) : p[1] < p[2]}
        vec(i) == normalize_player_data(player_data[i].percentages)
        choices == {e \in [pairs -> {-1, 0, 1}] :
                       \A p \in pairs :
                           e[p] \in (IF meth = "cosine" THEN float_errors(vec(p[1]), vec(p[2]))
                                      ELSE {0})}
    IN {[p \in (1..n) \X (1..n) |->
            IF p[1] = p[2] THEN 0
            ELSE IF p[1] < p[2] THEN e[p] ELSE e[<<p[2], p[1]>>]] : e \in choices}

FinderFrame ==
    /\ pc' = "done"
    /\ UNCHANGED player_data
    /\ UNCHANGED <<clsVars, zoneVars, mapVars, anaVars, extVars, sclVars, dbVars>>

ComputeCosineSimilarity ==
    /\ pc = "call"
    /\ \E i, j \in 1..Len(player_data) :
        LET vector1 == normalize_player_data(player_data[i].percentages)
            vector2 == normalize_player_data(player_data[j].percentages)
        IN \E e \in float_errors(vector1, vector2) :
            finder_result' = [op |-> "compute_cosine_similarity",
                              vector1 |-> vector1, vector2 |-> vector2,
                              outcome |-> returned(compute_cosine_similarity(vector1, vector2, e))]
    /\ UNCHANGED <<target_player, method, top_n, exclude_self>>
    /\ FinderFrame

FindMostSimilarPlayer ==
    /\ pc = "call"
    /\ \E target \in FinderNames, meth \in FinderMethods :
        \E errs \in TargetErrors(target, meth), excl \in BOOLEAN :
            /\ target_player' = target
            /\ method' = meth
            /\ exclude_self' = excl
            /\ finder_result' =
                   [op |-> "find_most_similar_player",
                    outcome |-> find_most_similar_player(target, player_data, meth, excl, errs)]
    /\ UNCHANGED top_n
    /\ FinderFrame

FindTopSimilarPlayers ==
    /\ pc = "call"
    /\ \E target \in FinderNames, meth \in FinderMethods :
        \E errs \in TargetErrors(target, meth), excl \in BOOLEAN, topn \in -1..MaxTopN :
            /\ target_player' = target
            /\ method' = meth
            /\ exclude_self' = excl
            /\ top_n' = topn
            /\ finder_result' =
                   [op |-> "find_top_similar_players",
                    outcome |-> find_top_similar_players(target, player_data, topn,
                                                         meth, excl, errs)]
    /\ FinderFrame

CreateSimilarityMatrix ==
    /\ pc = "call"
    /\ \E meth \in FinderMethods :
        \E errs \in MatrixErrors(meth) :
            /\ method' = meth
            /\ finder_result' =
                   [op |-> "create_similarity_matrix",
                    outcome |-> create_similarity_matrix(player_data, meth, errs)]
    /\ UNCHANGED <<target_player, top_n, exclude_self>>
    /\ FinderFrame

\* analyze_player_profile on the percentages of one player of the dictionary.
AnalyzePlayerProfile ==
    /\ pc = "call"
    /\ \E i \in 1..Len(player_data) :
        /\ target_player' = player_data[i].name
        /\ finder_result' =
               [op |-> "analyze_player_profile",
                outcome |-> returned(analyze_player_profile(player_data[i].percentages))]
    /\ UNCHANGED <<method, top_n, exclude_self>>
    /\ FinderFrame

NextFinder ==
    \/ ComputeCosineSimilarity
    \/ FindMostSimilarPlayer
    \/ FindTopSimilarPlayers
    \/ CreateSimilarityMatrix
    \/ AnalyzePlayerProfile

SpecFinder == InitFinder /\ [][NextFinder]_vars

(***************************************************************************)
(* The profile: any percentage map of one player, then one call.           *)
(***************************************************************************)
ProfilePercentages == {Zero, <<20, 1>>, <<50, 1>>, <<60, 1>>, <<80, 1>>}
ProfileMaps ==
    [{"A", "B", "C", "D"} -> ProfilePercentages]
        \cup [{"Left Corner 3", "Paint"} -> ProfilePercentages]

InitProfile ==
    /\ pc = "call"
    /\ \E player_map \in ProfileMaps :
           player_data = <<[name |-> "A", percentages |-> player_map]>>
    /\ target_player = ""
    /\ method = ""
    /\ top_n = 0
    /\ exclude_self = FALSE
    /\ finder_result = NoCall
    /\ ClsIdle /\ ZoneIdle /\ MapIdle /\ AnaIdle /\ ExtIdle /\ SclIdle /\ DbIdle

NextProfile == AnalyzePlayerProfile

SpecProfile == InitProfile /\ [][NextProfile]_vars

(***************************************************************************)
(* The player store: an object of either class on no earlier files, then   *)
(* any sequence of calls.                                                  *)
(***************************************************************************)
StoreClasses == {"SQLitePlayerDatabase", "PlayerDatabase"}

pct_paint == [z \in {"Paint"} |-> <<50, 1>>]
pct_corner == [z \in {"Left Corner 3"} |-> <<40, 1>>]
pct_both == [z \in {"Paint", "Left Corner 3"} |-> IF z = "Paint" THEN <<60, 1>> ELSE <<333, 10>>]

\* The arguments of add_player after the name.
AddArgs ==
    {[percentages |-> pct_paint, made_shots |-> [z \in {"Paint"} |-> 5],
      attempts |-> [z \in {"Paint"} |-> 10], games_played |-> 44, original_games |-> <<22>>],
     [percentages |-> pct_corner, made_shots |-> [z \in {"Left Corner 3"} |-> 2],
      attempts |-> [z \in {"Left Corner 3"} |-> 5], games_played |-> 22, original_games |-> <<>>],
     [percentages |-> pct_both, made_shots |-> None,
      attempts |-> None, games_played |-> 44, original_games |-> <<0>>]}

InitStore ==
    /\ pc = "run"
    /\ store_class \in StoreClasses
    /\ players = EmptyDict
    /\ backup_json = NoFile
    /\ data = EmptyDict
    /\ db_file = NoFile
    /\ db_call = NoCall
    /\ db_result = None
    /\ ClsIdle /\ ZoneIdle /\ MapIdle /\ AnaIdle /\ ExtIdle /\ SclIdle /\ FndIdle

StoreFrame ==
    /\ UNCHANGED <<pc, store_class>>
    /\ UNCHANGED <<clsVars, zoneVars, mapVars, anaVars, extVars, sclVars, fndVars>>

True == [kind |-> "bool", flag |-> TRUE]
False == [kind |-> "bool", flag |-> FALSE]

\* SQLitePlayerDatabase.add_player: the row, then the backup file.
AddPlayer ==
    /\ pc = "run" /\ store_class = "SQLitePlayerDatabase"
    /\ \E player_name \in PlayerNames, a \in AddArgs :
        LET table == add_player_no_backup(players, player_name, a.percentages, a.made_shots,
                                          a.attempts, a.games_played, a.original_games)
        IN /\ players' = table
           /\ backup_json' = backup_to_json(table)
           /\ db_call' = [op |-> "add_player", name |-> player_name, args |-> a,
                           existed |-> player_name \in DOMAIN players]
           /\ db_result' = True
    /\ UNCHANGED <<data, db_file>>
    /\ StoreFrame

GetPlayer ==
    /\ pc = "run" /\ store_class = "SQLitePlayerDatabase"
    /\ \E player_name \in PlayerNames :
        /\ db_call' = [op |-> "get_player", name |-> player_name]
        /\ db_result' = get_player(players, player_name)
    /\ UNCHANGED <<players, backup_json, data, db_file>>
    /\ StoreFrame

GetAllPlayers ==
    /\ pc = "run" /\ store_class = "SQLitePlayerDatabase"
    /\ db_call' = [op |-> "get_all_players"]
    /\ db_result' = [kind |-> "dict", items |-> get_all_players(players)]
    /\ UNCHANGED <<players, backup_json, data, db_file>>
    /\ StoreFrame

RemovePlayer ==
    /\ pc = "run" /\ store_class = "SQLitePlayerDatabase"
    /\ \E player_name \in PlayerNames :
        /\ players' = remove_player(players, player_name)
        /\ db_call' = [op |-> "remove_player", name |-> player_name]
        /\ db_result' = IF player_name \in DOMAIN players THEN True ELSE False
    /\ UNCHANGED <<backup_json, data, db_file>>
    /\ StoreFrame

ClearDatabase ==
    /\ pc = "run" /\ store_class = "SQLitePlayerDatabase"
    /\ players' = EmptyDict
    /\ db_call' = [op |-> "clear_database"]
    /\ db_result' = True
    /\ UNCHANGED <<backup_json, data, db_file>>
    /\ StoreFrame

BackupToJson ==
    /\ pc = "run" /\ store_class = "SQLitePlayerDatabase"
    /\ backup_json' = backup_to_json(players)
    /\ db_call' = [op |-> "backup_to_json"]
    /\ db_result' = True
    /\ UNCHANGED <<players, data, db_file>>
    /\ StoreFrame

LoadFromJsonBackup ==
    /\ pc = "run" /\ store_class = "SQLitePlayerDatabase"
    /\ \E force_load \in BOOLEAN :
        LET got == load_from_json_backup(players, backup_json, force_load)
        IN /\ players' = got[1]
           /\ db_call' = [op |-> "load_from_json_backup", force_load |-> force_load]
           /\ db_result' = got[2]
    /\ UNCHANGED <<backup_json, data, db_file>>
    /\ StoreFrame

\* A new SQLitePlayerDatabase on the same database file and backup file:
\* init_database keeps the table, load_from_json_backup() follows.
Restart ==
    /\ pc = "run" /\ store_class = "SQLitePlayerDatabase"
    /\ players' = load_from_json_backup(players, backup_json, FALSE)[1]
    /\ db_call' = [op |-> "restart", had |-> DOMAIN players]
    /\ db_result' = None
    /\ UNCHANGED <<backup_json, data, db_file>>
    /\ StoreFrame

\* PlayerDatabase.add_player: the entry, then save_database.
DataAddPlayer ==
    /\ pc = "run" /\ store_class = "PlayerDatabase"
    /\ \E player_name \in PlayerNames, a \in AddArgs :
        LET d == data_add_player(data, player_name, a.percentages, a.made_shots,
                                 a.attempts, a.games_played, a.original_games)
        IN /\ data' = d
           /\ db_file' = save_database(d)
           /\ db_call' = [op |-> "add_player", name |-> player_name, args |-> a,
                           existed |-> player_name \in DOMAIN data]
           /\ db_result' = None
    /\ UNCHANGED <<players, backup_json>>
    /\ StoreFrame

DataGetPlayer ==
    /\ pc = "run" /\ store_class = "PlayerDatabase"
    /\ \E player_name \in PlayerNames :
        /\ db_call' = [op |-> "get_player", name |-> player_name]
        /\ db_result' = data_get_player(data, player_name)
    /\ UNCHANGED <<players, backup_json, data, db_file>>
    /\ StoreFrame

DataGetAllPlayers ==
    /\ pc = "run" /\ store_class = "PlayerDatabase"
    /\ db_call' = [op |-> "get_all_players"]
    /\ db_result' = [kind |-> "dict", items |-> data_get_all_players(data)]
    /\ UNCHANGED <<players, backup_json, data, db_file>>
    /\ StoreFrame

\* PlayerDatabase.remove_player saves only when the name was there.
DataRemovePlayer ==
    /\ pc = "run" /\ store_class = "PlayerDatabase"
    /\ \E player_name \in PlayerNames :
        /\ data' = data_remove_player(data, player_name)
        /\ db_file' = IF player_name \in DOMAIN data
                       THEN save_database(data_remove_player(data, player_name))
                       ELSE db_file
        /\ db_call' = [op |-> "remove_player", name |-> player_name]
        /\ db_result' = None
    /\ UNCHANGED <<players, backup_json>>
    /\ StoreFrame

NextStore ==
    \/ AddPlayer
    \/ GetPlayer
    \/ GetAllPlayers
    \/ RemovePlayer
    \/ ClearDatabase
    \/ BackupToJson
    \/ LoadFromJsonBackup
    \/ Restart
    \/ DataAddPlayer
    \/ DataGetPlayer
    \/ DataGetAllPlayers
    \/ DataRemovePlayer

SpecStore == InitStore /\ [][NextStore]_vars

(***************************************************************************)
(* Properties of the classifier                                            *)
(***************************************************************************)
\* The text without its leading and trailing whitespace, stated as the
\* longest-trimmed slice rather than computed by strip.
StrippedOf(raw) ==
    CHOOSE t \in {SubSeq(raw, i, j) : i \in 1..(Len(raw) + 1), j \in 0..Len(raw)} :
        /\ \E i \in 1..(Len(raw) + 1), j \in 0..Len(raw) :
              /\ t = SubSeq(raw, i, j)
              /\ i <= j + 1
              /\ \A k \in 1..(i - 1) : raw[k] \in Whitespace
              /\ \A k \in (j + 1)..Len(raw) : raw[k] \in Whitespace
        /\ t # <<>> => (t[1] \notin Whitespace /\ t[Len(t)] \notin Whitespace)

AllDigits(s) == Len(s) >= 1 /\ \A i \in 1..Len(s) : s[i] \in Digits

\* digits '/' digits
ShapeMadeAttempts(s) ==
    \E k \in 1..Len(s) :
        s[k] = "/" /\ AllDigits(SubSeq(s, 1, k - 1)) /\ AllDigits(SubSeq(s, k + 1, Len(s)))

\* digits, an optional decimal part ('.' and the digits after it, which may
\* be none, as in '7.%'), then '%'
ShapePercentage(s) ==
    /\ Len(s) >= 2
    /\ s[Len(s)] = "%"
    /\ \E k \in 1..(Len(s) - 1) :
          /\ AllDigits(SubSeq(s, 1, k))
          /\ \/ k = Len(s) - 1
             \/ /\ s[k + 1] = "."
                /\ \A i \in (k + 2)..(Len(s) - 1) : s[i] \in Digits

\* digits '.' digits
ShapeDecimal(s) ==
    \E k \in 1..Len(s) :
        s[k] = "." /\ AllDigits(SubSeq(s, 1, k - 1)) /\ AllDigits(SubSeq(s, k + 1, Len(s)))

\* a not-available marker, in all upper or all lower case
ShapeMarker(s) ==
    s \in {<<"N", "A">>, <<"N", "/", "A">>, <<"n", "a">>, <<"n", "/", "a">>}

\* digits only, at most three of them
ShapeBareCount(s) == AllDigits(s) /\ Len(s) <= 3

\* C1: is_basketball_stat accepts a text exactly when the text, stripped of
\* whitespace, is in full a made/attempts, a percentage, a decimal, a
\* not-available marker or a bare count of at most three digits; every other
\* text (empty, blank, four digits and more) is rejected.
C1_AcceptsExactlyTheShapes ==
    pc = "done" =>
        (is_stat <=> LET t == StrippedOf(text) IN
                         \/ ShapeMadeAttempts(t)
                         \/ ShapePercentage(t)
                         \/ ShapeDecimal(t)
                         \/ ShapeMarker(t)
                         \/ ShapeBareCount(t))

\* A made/attempts text with leading whitespace was accepted.
C1_Witness == pc = "done" /\ text = <<" ", "7", "/", "7">> /\ is_stat

\* C2: every upper/lower-case spelling of NA and of N/A is accepted,
\* the mixed-case ones included.
C2_MarkerAnyCase ==
    (pc = "done" /\ upper(StrippedOf(text)) \in {<<"N", "A">>, <<"N", "/", "A">>})
        => is_stat

(***************************************************************************)
(* Properties of the zone lookup                                           *)
(***************************************************************************)
ZoneByName(n) == CHOOSE z \in {shot_zones[i] : i \in 1..Len(shot_zones)} : z.name = n

InRectangle(p, z) ==
    /\ p[1] >= z.x_range[1] /\ p[1] <= z.x_range[2]
    /\ p[2] >= z.y_range[1] /\ p[2] <= z.y_range[2]

\* The squared distance of p to the center of z, times four (the center's
\* coordinates are halves).
CenterDist2x4(p, z) ==
    (2 * p[1] - z.x_range[1] - z.x_range[2]) * (2 * p[1] - z.x_range[1] - z.x_range[2])
    + (2 * p[2] - z.y_range[1] - z.y_range[2]) * (2 * p[2] - z.y_range[1] - z.y_range[2])

\* C7: get_zone_for_coordinate always returns a predefined zone: one whose
\* rectangle contains the point when some rectangle does, otherwise one whose
\* rectangle center is nearest to the point.
C7_AlwaysAZone ==
    pc = "done" =>
        LET all == {shot_zones[i] : i \in 1..Len(shot_zones)} IN
        /\ zone_name \in {z.name : z \in all}
        /\ IF \E z \in all : InRectangle(coord, z)
           THEN InRectangle(coord, ZoneByName(zone_name))
           ELSE \A z \in all :
                    CenterDist2x4(coord, ZoneByName(zone_name)) <= CenterDist2x4(coord, z)

\* A point in no rectangle was given the nearest zone.
C7_Witness ==
    /\ pc = "done"
    /\ coord = <<900, 0>>
    /\ zone_name = "Right Wing 3"

(***************************************************************************)
(* Properties of the zone mapper                                           *)
(***************************************************************************)
\* The values the token texts of the mapper's inputs stand for.
MadeAttemptsOf ==
    (txt_27_70 :> <<27, 70>>) @@ (txt_70_27 :> <<70, 27>>) @@ (txt_0_5 :> <<0, 5>>)
PercentOf ==
    (txt_38_6p :> <<386, 10>>) @@ (txt_250p :> <<250, 1>>) @@ (txt_0p :> <<0, 1>>)

Close(a, b) ==
    (a.center_x - b.center_x) * (a.center_x - b.center_x)
    + (a.center_y - b.center_y) * (a.center_y - b.center_y) <= 100 * 100

\* C3: the mapper, the similarity finder and the radar plotter use the same
\* list of ten zones in the same order, so every zone key the mapper writes
\* into a player's percentages is a zone the similarity vector reads.
C3_SameZoneList ==
    pc = "normalized" =>
        /\ mapper_standard_zones = finder_standard_zones
        /\ radar_standard_zones = finder_standard_zones
        /\ \A z \in DOMAIN normalized_data :
               \E i \in 1..Len(finder_standard_zones) : finder_standard_zones[i] = z

\* C4: a made/attempts token M/A and a percentage token P% with P > 0 whose
\* centers are within the threshold, in either order, give exactly one zone
\* entry, with made = M, attempts = A and percentage = P.
C4_PairGivesOneEntry ==
    (/\ pc # "call"
     /\ Len(ocr_results) = 2
     /\ Close(ocr_results[1], ocr_results[2]))
    => \A i, j \in 1..2 :
          (/\ ocr_results[i].text \in DOMAIN MadeAttemptsOf
           /\ ocr_results[j].text \in DOMAIN PercentOf
           /\ PercentOf[ocr_results[j].text][1] > 0)
          => /\ Cardinality(DOMAIN zone_data) = 1
             /\ \A z \in DOMAIN zone_data :
                   /\ zone_data[z].made = MadeAttemptsOf[ocr_results[i].text][1]
                   /\ zone_data[z].attempts = MadeAttemptsOf[ocr_results[i].text][2]
                   /\ RatEq(zone_data[z].percentage, PercentOf[ocr_results[j].text])

\* '38.6%' at (105, 110) came first and '27/70' at (100, 100) second, and the
\* entry kept 38.6.
C4_Witness ==
    /\ pc = "done"
    /\ Len(ocr_results) = 2
    /\ ocr_results[1].text = txt_38_6p /\ ocr_results[1].center_x = 105
    /\ ocr_results[2].text = txt_27_70 /\ ocr_results[2].center_x = 100
    /\ \E z \in DOMAIN zone_data :
           zone_data[z].made = 27 /\ RatEq(zone_data[z].percentage, <<386, 10>>)

\* n / d rounded to one decimal place.
RoundedToOneDecimal(n, d) ==
    LET q == (10 * n) \div d
        r == 10 * n - q * d
    IN IF 2 * r < d \/ (2 * r = d /\ q % 2 = 0) THEN <<q, 10>> ELSE <<q + 1, 10>>

HasPercentToken(group) ==
    \E i \in 1..Len(group) : group[i].text \in DOMAIN PercentOf

\* C5: a zone entry with attempts > 0 whose group held no percentage token
\* has percentage = 100 * made / attempts rounded to one decimal place.
C5_DerivedPercentageRounded ==
    pc # "call" =>
        LET groups == group_stats_by_proximity(ocr_results) IN
        \A z \in DOMAIN zone_data : \A k \in 1..Len(groups) :
            (/\ extract_zone_stats(groups[k]) = zone_data[z]
             /\ ~HasPercentToken(groups[k])
             /\ zone_data[z].attempts > 0)
            => RatEq(zone_data[z].percentage,
                     RoundedToOneDecimal(100 * zone_data[z].made, zone_data[z].attempts))

\* C6: every zone entry has made >= 0, attempts >= made and a percentage
\* between 0 and 100.
C6_ZoneStatInRange ==
    pc # "call" =>
        \A z \in DOMAIN zone_data :
            /\ zone_data[z].made >= 0
            /\ zone_data[z].attempts >= zone_data[z].made
            /\ RatLe(Zero, zone_data[z].percentage)
            /\ RatLe(zone_data[z].percentage, <<100, 1>>)

(***************************************************************************)
(* Properties of the analyzer                                              *)
(***************************************************************************)
\* The free-throw-line rectangle of the analyzer.
InFreeThrowLine(tok) ==
    /\ tok.center_x >= 270 /\ tok.center_x <= 480
    /\ tok.center_y >= 240 /\ tok.center_y <= 270

\* C8: exactly two made/attempts tokens in the free-throw-line zone are
\* reported combined as '<left> + <right>', by ascending center x, whatever
\* percentage or N/A tokens lie in the zone with them.
C8_FreeThrowCombined ==
    pc = "done" =>
        LET pair == SelectSeq(raw_stats,
                        LAMBDA st : ShapeMadeAttempts(st.text) /\ InFreeThrowLine(st))
        IN Len(pair) = 2 =>
              \E i \in 1..Len(report.statistics), a, b \in 1..2 :
                  /\ a # b
                  /\ pair[a].center_x <= pair[b].center_x
                  /\ report.statistics[i].shots_made_attempted =
                         pair[a].text \o <<" ", "+", " ">> \o pair[b].text

(***************************************************************************)
(* Properties of the missing-zone inference                                *)
(***************************************************************************)
ExpectedRectangles ==
    { [x_range |-> <<100, 280>>, y_range |-> <<220, 340>>],
      [x_range |-> <<470, 650>>, y_range |-> <<220, 340>>],
      [x_range |-> <<300, 450>>, y_range |-> <<180, 280>>] }

TokensIn(l, z) == {i \in 1..Len(l) : InRectangle(<<l[i].center_x, l[i].center_y>>, z)}

\* C9: whatever the N/A pass returns, and also when it raises,
\* detect_missing_zones returns exactly one token, with text 'N/A' and its
\* center in the rectangle, for each expected zone without a detected stat,
\* and none for the others; so after extract_basketball_stats every expected
\* zone holds a token.
C9_EveryExpectedZoneFilled ==
    /\ pc = "detected" =>
          /\ \A z \in ExpectedRectangles :
                IF TokensIn(all_results, z) = {}
                THEN /\ Cardinality(TokensIn(inferred_nas, z)) = 1
                     /\ \A i \in TokensIn(inferred_nas, z) : inferred_nas[i].text = txt_NA
                ELSE TokensIn(inferred_nas, z) = {}
          /\ \A i \in 1..Len(inferred_nas) :
                \E z \in ExpectedRectangles : i \in TokensIn(inferred_nas, z)
    /\ pc = "extracted" =>
          \A z \in ExpectedRectangles : TokensIn(final_results, z) # {}

\* Nothing was detected; one zone got a token the N/A pass read, another an
\* inferred one.
C9_Witness ==
    /\ pc = "detected"
    /\ all_results = <<>>
    /\ \E i, j \in 1..Len(inferred_nas) :
           /\ inferred_nas[i].method = "na_detection"
           /\ inferred_nas[j].method = "inferred_na"

(***************************************************************************)
(* Properties of the scaler                                                *)
(***************************************************************************)
\* C10: with original_games = target_games = g > 0, scale_stats_to_games
\* returns maps equal to made_shots and attempts.
C10_ScalingIdentity ==
    (pc = "done" /\ original_games > 0 /\ target_games = original_games)
        => scaled = <<made_shots, attempts>>

\* Two maps with different keys and counts were scaled from 2 games to 2.
C10_Witness ==
    /\ pc = "done"
    /\ original_games = 2 /\ target_games = 2
    /\ made_shots = ("Paint" :> 1)
    /\ DOMAIN attempts = ScalerZones /\ attempts["Paint"] = 3
    /\ scaled[2] = attempts

\* C11: with original_games <= 0, whatever target_games is,
\* scale_stats_to_games returns the made and attempts maps it was given.
C11_NoScalingWithoutGames ==
    (pc = "done" /\ original_games <= 0) => scaled = <<made_shots, attempts>>

C11_Witness ==
    /\ pc = "done"
    /\ original_games <= 0
    /\ target_games > 1
    /\ \E z \in DOMAIN made_shots : made_shots[z] > 0 /\ scaled[1][z] = made_shots[z]
    /\ \E z \in DOMAIN attempts : attempts[z] > 0 /\ scaled[2][z] = attempts[z]

\* The integer s is count * target_games / original_games rounded to the
\* nearest integer (either neighbour at a tie); original_games > 0.
NearestInteger(s, count) ==
    LET diff == s * original_games - count * target_games
    IN 2 * (IF diff < 0 THEN -diff ELSE diff) <= original_games

\* What C11 and the scale factor make of a count.
IsScaledCount(s, count) ==
    IF original_games > 0 THEN NearestInteger(s, count) ELSE s = count

\* C12: add_player_with_scaling stores, for every zone of the made map,
\* the made count scaled by target_games / original_games and rounded to the
\* nearest integer, likewise every attempts count, and the percentage
\* 100 * scaledMade / scaledAttempts rounded to one decimal when the zone
\* has scaledAttempts > 0, and 0.0 when it has not or is absent from the
\* attempts map.
C12_StoredScaledPercentages ==
    pc = "stored" =>
        LET stored == get_player(players, db_call.name).value IN
        /\ DOMAIN stored.made_shots = DOMAIN made_shots
        /\ DOMAIN stored.attempts = DOMAIN attempts
        /\ DOMAIN stored.percentages = DOMAIN made_shots
        /\ \A z \in DOMAIN made_shots : IsScaledCount(stored.made_shots[z], made_shots[z])
        /\ \A z \in DOMAIN attempts : IsScaledCount(stored.attempts[z], attempts[z])
        /\ \A z \in DOMAIN made_shots :
               IF z \in DOMAIN attempts /\ stored.attempts[z] > 0
               THEN RatEq(stored.percentages[z],
                          RoundedToOneDecimal(100 * stored.made_shots[z], stored.attempts[z]))
               ELSE stored.percentages[z] = <<0, 1>>

\* Paint 10/20 over 22 games scaled to 44 is stored as 20/40 and 50.0.
C12_Witness ==
    /\ pc = "stored"
    /\ <<made_shots, attempts, original_games, target_games>> = PaintScenario
    /\ LET stored == get_player(players, db_call.name).value IN
           /\ stored.made_shots["Paint"] = 20
           /\ stored.attempts["Paint"] = 40
           /\ RatEq(stored.percentages["Paint"], <<50, 1>>)

\* The canonical zone order of the similarity vector.
CanonicalZones ==
    <<"Left Corner 3", "Left Wing 3", "Top of Key 3", "Right Wing 3", "Right Corner 3",
      "Left Mid Range", "Left Free Throw", "Right Free Throw", "Right Mid Range", "Paint">>

\* The vector has one component per canonical zone, in canonical order: the
\* percentage of the zone, 0.0 for a zone the map lacks.
IsProjection(vector, percentages) ==
    /\ Len(vector) = 10
    /\ \A i \in 1..10 :
           IF CanonicalZones[i] \in DOMAIN percentages
           THEN RatEq(vector[i], percentages[CanonicalZones[i]])
           ELSE RatEq(vector[i], <<0, 1>>)

\* C13: the vector normalize_player_data builds from a percentage map the
\* zone mapper produced has length 10, follows the canonical zone order,
\* holds 0.0 for each missing zone, and every component lies in [0, 100].
C13_VectorInRange ==
    pc = "done" =>
        /\ IsProjection(player_vector, normalized_data)
        /\ \A i \in 1..Len(player_vector) :
               RatLe(<<0, 1>>, player_vector[i]) /\ RatLe(player_vector[i], <<100, 1>>)

\* The similarity s is exactly 1.0, exactly 0.0.
IsExactlyOne(s) ==
    s.err = 0 /\ RatEq(s.arg, IF s.form = "sqrt" THEN <<1, 1>> ELSE <<0, 1>>)
IsExactlyZero(s) ==
    s.err = 0 /\ RatEq(s.arg, IF s.form = "sqrt" THEN <<0, 1>> ELSE <<1, 1>>)

IsZeroVector(v) == \A i \in 1..Len(v) : v[i][1] = 0

\* C14: compute_cosine_similarity(v, v) is 1.0 for every v that is not all
\* zero, and compute_cosine_similarity is exactly 0.0 when either argument
\* is the all-zero vector.
C14_CosineSelfAndZero ==
    finder_result.op = "compute_cosine_similarity" =>
        LET v1 == finder_result.vector1
            v2 == finder_result.vector2
            value == finder_result.outcome.value
        IN /\ (IsZeroVector(v1) \/ IsZeroVector(v2)) => IsExactlyZero(value)
           /\ (v1 = v2 /\ ~IsZeroVector(v1)) => IsExactlyOne(value)

ValidMethods == {"cosine", "euclidean"}
NamesIn(pdata) == {pdata[i].name : i \in 1..Len(pdata)}
PositionOf(name) == CHOOSE i \in 1..Len(player_data) : player_data[i].name = name

\* The similarity a is greater than the similarity b (both of one form).
HigherScore(a, b) ==
    IF RatEq(a.arg, b.arg) THEN a.err > b.err
    ELSE IF a.form = "sqrt" THEN RatLt(b.arg, a.arg) ELSE RatLt(a.arg, b.arg)

NumberOfCandidates ==
    Cardinality({i \in 1..Len(player_data) :
                    ~(exclude_self /\ player_data[i].name = target_player)})

\* C15: with the target in the dictionary and a valid method,
\* find_top_similar_players returns pairs of distinct players with scores
\* that never increase, pairs of equal score in the iteration order of the
\* dictionary, never the target when exclude_self is true, and for
\* top_n >= 0 exactly min(top_n, number of candidates) pairs, so at most top_n.
C15_TopSimilarOrdered ==
    (/\ finder_result.op = "find_top_similar_players"
     /\ target_player \in NamesIn(player_data)
     /\ method \in ValidMethods)
    => /\ finder_result.outcome.status = "ok"
       /\ LET top == finder_result.outcome.value IN
           /\ \A k \in 1..Len(top) : top[k][1] \in NamesIn(player_data)
           /\ \A k, l \in 1..Len(top) : top[k][1] = top[l][1] => k = l
           /\ \A k \in 1..Len(top) - 1 : ~HigherScore(top[k + 1][2], top[k][2])
           /\ \A k, l \in 1..Len(top) :
                  (k < l /\ top[k][2] = top[l][2])
                      => PositionOf(top[k][1]) < PositionOf(top[l][1])
           /\ exclude_self => \A k \in 1..Len(top) : top[k][1] # target_player
           /\ top_n >= 0 =>
                  /\ Len(top) <= top_n
                  /\ Len(top) = IF top_n < NumberOfCandidates
                                THEN top_n ELSE NumberOfCandidates

\* The best candidate is the last player of the dictionary and the first
\* pair of the result.
C15_Witness ==
    /\ finder_result.op = "find_top_similar_players"
    /\ method \in ValidMethods
    /\ exclude_self
    /\ top_n = 2
    /\ Len(player_data) = 3
    /\ target_player = player_data[1].name
    /\ finder_result.outcome.status = "ok"
    /\ LET top == finder_result.outcome.value IN
           /\ Len(top) = 2
           /\ top[1][1] = player_data[3].name
           /\ HigherScore(top[1][2], top[2][2])

\* A player's vector is all zero: no canonical zone has a percentage but 0.
HasZeroVector(i) ==
    \A k \in 1..10 :
        CanonicalZones[k] \in DOMAIN player_data[i].percentages
            => player_data[i].percentages[CanonicalZones[k]][1] = 0

\* C16: for both methods every diagonal entry of the matrix
\* create_similarity_matrix returns is exactly 1.0, also for a player whose
\* vector is all zero, and the name list has the length and the order of
\* the rows: row i belongs to the i-th player of the dictionary.
C16_MatrixDiagonalOne ==
    (finder_result.op = "create_similarity_matrix" /\ method \in ValidMethods)
    => /\ finder_result.outcome.status = "ok"
       /\ LET matrix == finder_result.outcome.value.matrix
               names == finder_result.outcome.value.names
               n == Len(player_data)
           IN /\ Len(names) = n
              /\ DOMAIN matrix = 1..n
              /\ \A i \in 1..n :
                     /\ names[i] = player_data[i].name
                     /\ DOMAIN matrix[i] = 1..n
                     /\ IsExactlyOne(matrix[i][i])
                     /\ \A j \in 1..n :
                            (method = "cosine" /\ i # j)
                                => (IsExactlyZero(matrix[i][j])
                                        <=> (HasZeroVector(i) \/ HasZeroVector(j)))

C16_Witness ==
    /\ finder_result.op = "create_similarity_matrix"
    /\ method = "cosine"
    /\ Len(player_data) = 3
    /\ HasZeroVector(2) /\ ~HasZeroVector(1) /\ ~HasZeroVector(3)
    /\ finder_result.outcome.status = "ok"
    /\ IsExactlyOne(finder_result.outcome.value.matrix[2][2])
    /\ IsExactlyZero(finder_result.outcome.value.matrix[2][3])

\* C17: find_most_similar_player, find_top_similar_players (the target
\* being in the dictionary) and create_similarity_matrix, called with a
\* method other than 'cosine' and 'euclidean', fail with the unknown-method
\* error for every dictionary, also one with the target alone or with fewer
\* than two players.
C17_UnknownMethodFails ==
    (/\ finder_result.op \in {"find_most_similar_player", "find_top_similar_players",
                                "create_similarity_matrix"}
     /\ method \notin ValidMethods
     /\ finder_result.op # "create_similarity_matrix"
            => target_player \in NamesIn(player_data))
    => /\ finder_result.outcome.status = "error"
       /\ finder_result.outcome.error = "unknown similarity method"

RECURSIVE SumOf(_, _)
SumOf(percentages, zones) ==
    IF zones = {} THEN <<0, 1>>
    ELSE LET z == CHOOSE x \in zones : TRUE
         IN RatAdd(percentages[z], SumOf(percentages, zones \ {z}))

\* The mean of the percentages that are not 0; 0.0 when there is none.
MeanOfNonZero(percentages) ==
    LET nonzero == {z \in DOMAIN percentages : percentages[z][1] # 0}
    IN IF nonzero = {} THEN <<0, 1>>
       ELSE RatDiv(SumOf(percentages, nonzero), <<Cardinality(nonzero), 1>>)

\* C18: analyze_player_profile takes overall_average over the nonzero
\* percentages only; strengths are exactly the zones with percentage >
\* overall_average + 10, weaknesses exactly the zones with percentage > 0
\* and percentage < overall_average - 10; a zone with percentage 0 is in
\* neither and no zone is in both.
C18_ProfileStrengthsWeaknesses ==
    finder_result.op = "analyze_player_profile" =>
        LET percentages == player_data[PositionOf(target_player)].percentages
            profile == finder_result.outcome.value
            mean == MeanOfNonZero(percentages)
        IN /\ RatEq(profile.overall_average, mean)
           /\ profile.strengths =
                  {z \in DOMAIN percentages : RatLt(RatAdd(mean, <<10, 1>>), percentages[z])}
           /\ profile.weaknesses =
                  {z \in DOMAIN percentages :
                      /\ RatLt(<<0, 1>>, percentages[z])
                      /\ RatLt(percentages[z], RatSub(mean, <<10, 1>>))}
           /\ \A z \in DOMAIN percentages :
                  percentages[z][1] = 0 => z \notin profile.strengths \cup profile.weaknesses
           /\ profile.strengths \cap profile.weaknesses = {}

\* {A: 80, B: 20, C: 50, D: 0}: overall_average 50, strengths [A], weaknesses [B].
C18_Witness ==
    /\ finder_result.op = "analyze_player_profile"
    /\ LET percentages == player_data[1].percentages IN
           /\ DOMAIN percentages = {"A", "B", "C", "D"}
           /\ percentages["A"] = <<80, 1>> /\ percentages["B"] = <<20, 1>>
           /\ percentages["C"] = <<50, 1>> /\ percentages["D"] = <<0, 1>>
    /\ RatEq(finder_result.outcome.value.overall_average, <<50, 1>>)
    /\ finder_result.outcome.value.strengths = {"A"}
    /\ finder_result.outcome.value.weaknesses = {"B"}


\* What a reader of the store sees under a name: the four fields of the
\* record get_player returns, or None.
Visible(table, n) ==
    LET r == get_player(table, n)
    IN IF r = None THEN None
       ELSE [percentages |-> r.value.percentages, made_shots |-> r.value.made_shots,
             attempts |-> r.value.attempts, games_played |-> r.value.games_played]

\* The four fields a call of add_player hands over (an absent map is empty).
Written(a) ==
    [percentages |-> a.percentages,
     made_shots |-> IF a.made_shots = None THEN EmptyDict ELSE a.made_shots,
     attempts |-> IF a.attempts = None THEN EmptyDict ELSE a.attempts,
     games_played |-> a.games_played]

OthersKeep(n) ==
    \A m \in PlayerNames \ {n} : Visible(players', m) = Visible(players, m)

\* C19: on one SQLitePlayerDatabase every call leaves the store as the most
\* recent writes determine it: add_player(name) makes get_player(name) show the
\* percentages, made shots, attempts and games played of that call and changes
\* no other name; remove_player(name) makes get_player(name) None and changes
\* no other name; clear_database makes every name None; get_player returns
\* what the store holds for the name and get_all_players lists exactly the
\* names that are not None, and neither changes the store.
C19_ReadAfterWrite ==
    [][store_class = "SQLitePlayerDatabase" /\ pc = "run" =>
        LET c == db_call'
        IN /\ c.op = "add_player" =>
                /\ Visible(players', c.name) = Written(c.args)
                /\ OthersKeep(c.name)
           /\ c.op = "remove_player" =>
                /\ Visible(players', c.name) = None
                /\ OthersKeep(c.name)
           /\ c.op = "clear_database" =>
                \A m \in PlayerNames : Visible(players', m) = None
           /\ c.op = "get_player" =>
                /\ IF Visible(players, c.name) = None
                   THEN db_result' = None
                   ELSE /\ db_result' # None
                        /\ db_result'.value.percentages = Visible(players, c.name).percentages
                        /\ db_result'.value.made_shots = Visible(players, c.name).made_shots
                        /\ db_result'.value.attempts = Visible(players, c.name).attempts
                        /\ db_result'.value.games_played = Visible(players, c.name).games_played
                /\ \A m \in PlayerNames : Visible(players', m) = Visible(players, m)
           /\ c.op = "get_all_players" =>
                /\ DOMAIN db_result'.items = {m \in PlayerNames : Visible(players, m) # None}
                /\ \A m \in DOMAIN db_result'.items :
                        db_result'.items[m] = Visible(players, m).percentages
                /\ \A m \in PlayerNames : Visible(players', m) = Visible(players, m)
    ]_vars

\* A read of "A" returns the record of its latest add after "B" was added and
\* then removed: the backup file still lists "B", the table does not.
C19_Witness ==
    /\ store_class = "SQLitePlayerDatabase"
    /\ db_call.op = "get_player" /\ db_call.name = "A"
    /\ db_result # None
    /\ db_result.value.percentages = pct_both
    /\ db_result.value.made_shots = EmptyDict
    /\ backup_json.exists
    /\ \E i \in 1..Len(backup_json.content) : backup_json.content[i][1] = "B"
    /\ "B" \notin DOMAIN players

\* The names in the store and the three maps stored under a name, for either
\* class of store.
StoredNames(cls, table, d) ==
    IF cls = "SQLitePlayerDatabase" THEN DOMAIN table ELSE DOMAIN d

StoredMaps(cls, table, d, n) ==
    IF cls = "SQLitePlayerDatabase"
    THEN LET r == get_player(table, n).value
         IN <<r.percentages, r.made_shots, r.attempts>>
    ELSE <<d[n].percentages, d[n].made_shots, d[n].attempts>>

\* C20: add_player for a name already in the store replaces the whole record:
\* afterwards the stored percentages, made-shots and attempts maps are exactly
\* the maps of that call (an absent map is the empty map), and the number of
\* players in the store is unchanged.
C20_AddReplacesWholeRecord ==
    [][(pc = "run" /\ db_call'.op = "add_player" /\ db_call'.existed) =>
        LET c == db_call'
            w == Written(c.args)
        IN /\ StoredMaps(store_class, players', data', c.name)
                = <<w.percentages, w.made_shots, w.attempts>>
           /\ Cardinality(StoredNames(store_class, players', data'))
                = Cardinality(StoredNames(store_class, players, data))
           /\ c.name \in StoredNames(store_class, players, data)
    ]_vars

\* A name already in the store was added again, with maps over the corner
\* zone only, next to a second player.
C20_Witness ==
    /\ pc = "run"
    /\ db_call.op = "add_player" /\ db_call.existed
    /\ db_call.args.percentages = pct_corner
    /\ Cardinality(StoredNames(store_class, players, data)) = 2
    /\ StoredMaps(store_class, players, data, db_call.name)
            = <<pct_corner, db_call.args.made_shots, db_call.args.attempts>>


\* The tokens the passes accept on the images where image_to_data returned.
AcceptedWhereSucceeded(d) ==
    LET RECURSIVE upto(_)
        upto(n) ==
            IF n = 0 THEN <<>>
            ELSE upto(n - 1) \o
                 (IF d[n].failed THEN <<>>
                  ELSE IF n <= preprocessed_count
                       THEN accepted_rows(d[n].rows, min_confidence(n - 1), preprocessed_methods[n])
                       ELSE accepted_rows(d[n].rows, 15, "original"))
    IN upto(Len(d))

\* C21: when image_to_data fails on some image variants but not on all of
\* them, extract_basketball_stats returns, and what it collected before the
\* duplicates are removed is what the passes accept on the variants that
\* succeeded.
C21_FailedVariantSkipped ==
    (/\ ocr_call.op = "extract_basketball_stats"
     /\ \E i \in DOMAIN ocr_data : ~ocr_data[i].failed)
    => /\ ocr_call.outcome.status = "ok"
       /\ all_results = AcceptedWhereSucceeded(ocr_data)


(***************************************************************************)
(* Properties of the grouping                                              *)
(***************************************************************************)
\* The positions of the list joined to position i by a chain of positions
\* whose consecutive tokens are within the threshold of each other.
RECURSIVE ChainFrom(_, _)
ChainFrom(reached, toks) ==
    LET more == reached \cup {j \in 1..Len(toks) : \E i \in reached : Close(toks[i], toks[j])}
    IN IF more = reached THEN reached ELSE ChainFrom(more, toks)

InSameGroup(a, b, grps) ==
    \E k \in 1..Len(grps) :
        /\ \E m \in 1..Len(grps[k]) : grps[k][m] = a
        /\ \E m \in 1..Len(grps[k]) : grps[k][m] = b

\* C22: two tokens of the list are in the same returned group if and only
\* if a chain of tokens, each within 100 pixels of the next, joins them.
C22_SingleLinkClustering ==
    pc = "grouped" =>
        \A i, j \in 1..Len(ocr_results) :
            InSameGroup(ocr_results[i], ocr_results[j], stat_groups)
            <=> j \in ChainFrom({i}, ocr_results)

\* How often a token occurs in a list, and in the groups together.
RECURSIVE CountIn(_, _)
CountIn(tok, l) ==
    IF l = <<>> THEN 0
    ELSE CountIn(tok, Tail(l)) + (IF Head(l) = tok THEN 1 ELSE 0)

RECURSIVE CountInGroups(_, _)
CountInGroups(tok, grps) ==
    IF grps = <<>> THEN 0
    ELSE CountIn(tok, Head(grps)) + CountInGroups(tok, Tail(grps))

FirstIndexOf(tok, l) == CHOOSE i \in 1..Len(l) : l[i] = tok /\ \A j \in 1..(i - 1) : l[j] # tok

\* C29: the returned groups partition the list: every token occurs in the
\* groups as often as in the list, no group is empty, the groups follow the
\* list order of their first tokens, and every token of a group is within
\* the threshold of the group's first token.
C29_GroupsPartitionInput ==
    pc = "grouped" =>
        /\ \A i \in 1..Len(ocr_results) :
               CountInGroups(ocr_results[i], stat_groups) = CountIn(ocr_results[i], ocr_results)
        /\ \A k \in 1..Len(stat_groups) :
               /\ stat_groups[k] # <<>>
               /\ \A m \in 1..Len(stat_groups[k]) :
                      /\ \E i \in 1..Len(ocr_results) : ocr_results[i] = stat_groups[k][m]
                      /\ Close(stat_groups[k][1], stat_groups[k][m])
        /\ \A k, l \in 1..Len(stat_groups) :
               k < l => FirstIndexOf(stat_groups[k][1], ocr_results)
                            < FirstIndexOf(stat_groups[l][1], ocr_results)

\* Three tokens in a row, the outer two out of each other's reach: the first
\* group holds the first two, the second group the third.
C29_Witness ==
    /\ pc = "grouped"
    /\ Len(ocr_results) = 3
    /\ ocr_results[1].center_x = 260
    /\ ocr_results[2].center_x = 360
    /\ ocr_results[3].center_x = 460
    /\ Len(stat_groups) = 2
    /\ stat_groups[1] = <<ocr_results[1], ocr_results[2]>>
    /\ stat_groups[2] = <<ocr_results[3]>>


\* The stat of each group of the list, and whether it counts.
StatsOfGroups(toks) ==
    LET grps == group_stats_by_proximity(toks)
    IN [k \in 1..Len(grps) |-> extract_zone_stats(grps[k])]

IsNonZeroStat(st) == st.made > 0 \/ RatLt(Zero, st.percentage)

\* C23: for every zone that some group with a nonzero stat maps to, the
\* entry of the zone is the stat of the group with the greatest attempts
\* among those groups, and of the first such group when several tie.
C23_GreatestAttemptsFirstKept ==
    pc = "mapped" =>
        LET stats == StatsOfGroups(ocr_results) IN
        \A z \in {stats[k].zone : k \in DOMAIN stats} :
            LET cands == {k \in DOMAIN stats : stats[k].zone = z /\ IsNonZeroStat(stats[k])}
                best == CHOOSE k \in cands :
                            /\ \A l \in cands : stats[l].attempts <= stats[k].attempts
                            /\ \A l \in cands : l < k => stats[l].attempts < stats[k].attempts
            IN cands # {} => (z \in DOMAIN zone_data /\ zone_data[z] = stats[best])

\* Two groups of one zone with nonzero stats and equal attempts, and the
\* entry is the stat of the first: it holds the first group's coordinates.
C23_Witness ==
    /\ pc = "mapped"
    /\ LET stats == StatsOfGroups(ocr_results) IN
       /\ Len(stats) = 2
       /\ stats[1].zone = stats[2].zone
       /\ IsNonZeroStat(stats[1]) /\ IsNonZeroStat(stats[2])
       /\ stats[1].attempts = stats[2].attempts /\ stats[1].attempts > 0
       /\ stats[1] # stats[2]
       /\ zone_data[stats[1].zone] = stats[1]

\* C24: every zone entry has made > 0 or percentage > 0, and no entry is
\* the stat of a group whose stat is all-zero.
C24_NoAllZeroEntry ==
    pc = "mapped" =>
        /\ \A z \in DOMAIN zone_data : IsNonZeroStat(zone_data[z])
        /\ LET stats == StatsOfGroups(ocr_results) IN
           \A k \in DOMAIN stats :
               ~IsNonZeroStat(stats[k]) =>
                   \A z \in DOMAIN zone_data : zone_data[z] # stats[k]

\* '5/10' came first and '0/20', out of its reach in the same zone, second:
\* the entry still has 10 attempts.
C24_Witness ==
    /\ pc = "mapped"
    /\ Len(ocr_results) = 2
    /\ ocr_results[1].text = txt_5_10 /\ ocr_results[1].center_x = 260
    /\ ocr_results[2].text = txt_0_20 /\ ocr_results[2].center_x = 460
    /\ DOMAIN zone_data = {"Top of Key 3"}
    /\ zone_data["Top of Key 3"].attempts = 10

\* C26: a stat of a group without a percentage token whose attempts are
\* not zero has percentage = 100 * made / attempts of its own made and
\* attempts.
C26_PercentageOfReportedCounts ==
    (/\ pc = "stat"
     /\ \A i \in 1..Len(ocr_results) : ~ShapePercentage(ocr_results[i].text)
     /\ group_stat.attempts > 0)
    => RatEq(group_stat.percentage, <<100 * group_stat.made, group_stat.attempts>>)


(***************************************************************************)
(* Properties of remove_duplicates                                         *)
(***************************************************************************)
AreDuplicates(a, b) ==
    /\ a.text = b.text
    /\ a.center_x - b.center_x <= 20 /\ b.center_x - a.center_x <= 20
    /\ a.center_y - b.center_y <= 20 /\ b.center_y - a.center_y <= 20

\* C25: the returned list holds no two tokens with the same text whose
\* centers differ by at most 20 pixels in x and in y, and every returned
\* token is at least as confident as each input token it duplicates when
\* those input tokens all duplicate each other.
C25_NoDuplicatesLeft ==
    pc = "deduped" =>
        /\ \A i, j \in 1..Len(unique_results) :
               i # j => ~AreDuplicates(unique_results[i], unique_results[j])
        /\ (\A i, j \in 1..Len(all_results) : AreDuplicates(all_results[i], all_results[j]))
               => \A i \in 1..Len(unique_results), j \in 1..Len(all_results) :
                      unique_results[i].confidence >= all_results[j].confidence


(***************************************************************************)
(* Properties of restart and backup                                        *)
(***************************************************************************)
\* C27: a restart returns no player that the table did not hold before it:
\* what was removed or cleared and not added again stays away.
C27_RemovedNeverReturned ==
    (store_class = "SQLitePlayerDatabase" /\ db_call.op = "restart")
    => \A n \in PlayerNames :
           get_player(players, n) # None => n \in db_call.had

\* The five fields of every player of a table, as get_player shows them.
ContentOf(table) ==
    [n \in DOMAIN table |->
        LET r == get_player(table, n).value
        IN [percentages |-> r.percentages, made_shots |-> r.made_shots,
            attempts |-> r.attempts, games_played |-> r.games_played,
            original_games |-> r.original_games]]

\* C28: for the content of the store in every state, backup_to_json, then
\* clear_database, then load_from_json_backup give a store with the same
\* names and the same five fields under each: the file a backup_to_json call
\* writes loads into the content the store had, clear_database empties the
\* table and leaves the file; and a load_from_json_backup call without
\* force_load on a non-empty store changes nothing in it.
C28_BackupRoundTrip ==
    [][(pc = "run" /\ store_class = "SQLitePlayerDatabase") =>
        /\ LET file == backup_to_json(players)
               cleared == EmptyDict
               restored == load_from_json_backup(cleared, file, FALSE)[1]
           IN ContentOf(restored) = ContentOf(players)
        /\ db_call'.op = "backup_to_json"
               => /\ players' = players
                  /\ ContentOf(load_from_json_backup(EmptyDict, backup_json', FALSE)[1])
                         = ContentOf(players)
        /\ db_call'.op = "clear_database"
               => players' = EmptyDict /\ backup_json' = backup_json
        /\ (/\ db_call'.op = "load_from_json_backup"
            /\ ~db_call'.force_load
            /\ players # EmptyDict)
               => players' = players
    ]_vars

\* A load_from_json_backup call loaded two players from the backup file,
\* one of them stored with original_games different from games_played.
C28_Witness ==
    /\ store_class = "SQLitePlayerDatabase"
    /\ db_call.op = "load_from_json_backup"
    /\ db_result.success /\ db_result.count = 2
    /\ \E n \in DOMAIN players :
           ContentOf(players)[n].original_games # ContentOf(players)[n].games_played


(***************************************************************************)
(* Scaling and the order of made shots and attempts                        *)
(***************************************************************************)
\* C30: with original_games > 0 and target_games >= 0, every zone of both
\* maps with 0 <= made <= attempts has scaled made <= scaled attempts, and
\* the percentage add_player_with_scaling stores for it is between 0 and 100.
C30_ScalingKeepsMadeWithinAttempts ==
    (pc \in {"done", "stored"} /\ original_games > 0 /\ target_games >= 0) =>
        \A z \in DOMAIN made_shots \cap DOMAIN attempts :
            (0 <= made_shots[z] /\ made_shots[z] <= attempts[z]) =>
                /\ scaled[1][z] <= scaled[2][z]
                /\ pc = "stored" =>
                       LET stored == get_player(players, db_call.name).value IN
                       /\ RatLe(<<0, 1>>, stored.percentages[z])
                       /\ RatLe(stored.percentages[z], <<100, 1>>)

\* 1 made of 3 attempts over 2 games scaled to 1 game: 0.5 rounds to 0 and
\* 1.5 to 2, and the stored percentage is 0.0.
C30_Witness ==
    /\ pc = "stored"
    /\ original_games = 2 /\ target_games = 1
    /\ "Paint" \in DOMAIN made_shots \cap DOMAIN attempts
    /\ made_shots["Paint"] = 1 /\ attempts["Paint"] = 3
    /\ scaled[1]["Paint"] = 0 /\ scaled[2]["Paint"] = 2
    /\ RatEq(get_player(players, db_call.name).value.percentages["Paint"], <<0, 1>>)

====
